---------------------------- MODULE Spec2Model ----------------------------
(***************************************************************************)
(* A model of the acquisition core of precious-metals-collector:           *)
(*   - collector/database.py      the SQLite store (insert_batch)           *)
(*   - collector/check_gaps.py    the gap detector                          *)
(*   - collector/data_fetcher/*   the provider chains and update_daily      *)
(* One group of variables per component; each specification moves one      *)
(* group and leaves the others at their initial value.                     *)
(***************************************************************************)
EXTENDS Integers, Sequences, FiniteSets, TLC

VARIABLES
    tables,        \* the database: table name -> sequence of rows (rowid order)
    lastCall,      \* the last insert_batch call: what happened in it
    lastWritten,   \* per table: natural key -> value column of its last committed write
    gapIn,         \* check_gaps_for_series: start_date, today and the dates stored
    gapOut,        \* check_gaps_for_series: what the call computed and logged
    chainIn,       \* a provider chain call: the function and what its providers answer
    chainOut,      \* a provider chain call: the calls it made and what it handed back
    shfe,          \* fetch_shfe over the life of a process: alerts sent, failure streak
    upstream,      \* what the upstreams serve while update runs are repeated
    lastRun,       \* the last update run: which fetcher, and what it did to the store
    pipeIn,        \* a run_daily_pipeline call: its arguments, environment, upstreams
    pipeOut,       \* a run_daily_pipeline call: the stages run, the mail, the outcome
    executor       \* a fetch behind the single-worker executor, step by step

storeVars == <<tables, lastCall, lastWritten>>

gapVars == <<gapIn, gapOut>>

chainVars == <<chainIn, chainOut>>

shfeVars == <<shfe>>

runVars == <<upstream, lastRun>>

pipeVars == <<pipeIn, pipeOut>>

execVars == <<executor>>

vars == <<tables, lastCall, lastWritten, gapIn, gapOut, chainIn, chainOut, shfe,
          upstream, lastRun, pipeIn, pipeOut, executor>>

(***************************************************************************)
(* Cells.  A cell is SQL NULL (Python None) or a value.                    *)
(***************************************************************************)
NULL == <<>>

Some(v) == <<v>>

(***************************************************************************)
(* The schema, database.py _CREATE_TABLES_SQL.                             *)
(***************************************************************************)
TableNames == {"inventory_daily", "future_prices_daily", "spot_prices_daily",
               "etf_holdings_daily", "cftc_positions_weekly", "fx_rates_daily"}

\* the columns of a table
Columns(t) ==
    CASE t = "inventory_daily" ->
           {"date", "exchange", "metal", "category", "warehouse", "inventory",
            "unit", "source"}
      [] t = "future_prices_daily" ->
           {"date", "exchange", "metal", "contract", "close_price", "open_interest",
            "volume", "currency", "source"}
      [] t = "spot_prices_daily" ->
           {"date", "market", "metal", "price", "currency", "source"}
      [] t = "etf_holdings_daily" ->
           {"date", "symbol", "metal", "shares", "ounces", "change", "source"}
      [] t = "cftc_positions_weekly" ->
           {"report_date", "market", "metal", "non_commercial_long",
            "non_commercial_short", "commercial_long", "commercial_short",
            "net_position", "source"}
      [] t = "fx_rates_daily" -> {"date", "pair", "rate", "source"}

\* UNIQUE(...): the natural key
UNIQUE(t) ==
    CASE t = "inventory_daily" ->
           {"date", "exchange", "metal", "category", "warehouse"}
      [] t = "future_prices_daily" -> {"date", "exchange", "metal", "contract"}
      [] t = "spot_prices_daily" -> {"date", "market", "metal"}
      [] t = "etf_holdings_daily" -> {"date", "symbol", "metal"}
      [] t = "cftc_positions_weekly" -> {"report_date", "market", "metal"}
      [] t = "fx_rates_daily" -> {"date", "pair"}

\* the columns declared NOT NULL
NOT_NULL(t) ==
    CASE t = "inventory_daily" -> {"date", "exchange", "metal", "inventory"}
      [] t = "future_prices_daily" -> {"date", "exchange", "metal", "contract"}
      [] t = "spot_prices_daily" -> {"date", "market", "metal", "price"}
      [] t = "etf_holdings_daily" -> {"date", "symbol", "metal"}
      [] t = "cftc_positions_weekly" -> {"report_date", "market", "metal"}
      [] t = "fx_rates_daily" -> {"date", "pair", "rate"}

\* DEFAULT of a column left out of the INSERT's column list
DEFAULT(t, c) ==
    IF t = "inventory_daily" /\ c = "warehouse" THEN Some("") ELSE NULL

\* the categories CHECK(category IN (...)) admits
CategoryCheck ==
    {"registered", "eligible", "pledged", "total", "warehouse", "vault_total"}

\* a CHECK constraint passes when its expression is true or NULL
CHECK(t, row) ==
    t = "inventory_daily" =>
        (row["category"] = NULL \/ row["category"][1] \in CategoryCheck)

\* the column that carries the observation's value
ValueColumn(t) ==
    CASE t = "inventory_daily" -> "inventory"
      [] t = "future_prices_daily" -> "close_price"
      [] t = "spot_prices_daily" -> "price"
      [] t = "etf_holdings_daily" -> "shares"
      [] t = "cftc_positions_weekly" -> "net_position"
      [] t = "fx_rates_daily" -> "rate"

\* the natural key of a stored row
KeyOf(t, row) == [c \in UNIQUE(t) |-> row[c]]

(***************************************************************************)
(* INSERT OR REPLACE INTO t (columns) VALUES (...), one statement.         *)
(***************************************************************************)
\* the row a statement builds: the given values, defaults for the rest
NewRow(t, columns, rec) ==
    [c \in Columns(t) |-> IF c \in columns THEN rec[c] ELSE DEFAULT(t, c)]

\* REPLACE turns a NULL in a NOT NULL column into the column's default
WithNotNullDefaults(t, row) ==
    [c \in Columns(t) |->
        IF c \in NOT_NULL(t) /\ row[c] = NULL THEN DEFAULT(t, c) ELSE row[c]]

\* two rows collide on the UNIQUE index: every key column equal and not NULL
\* (SQLite: NULLs are distinct from each other in a UNIQUE index)
Conflicts(t, a, b) ==
    \A c \in UNIQUE(t) : a[c] # NULL /\ a[c] = b[c]

\* the row the statement would store
StatementRow(t, columns, rec) == WithNotNullDefaults(t, NewRow(t, columns, rec))

\* the statement is refused: unknown column, NOT NULL or CHECK violated
StatementFails(t, columns, rec) ==
    \/ ~ (columns \subseteq Columns(t))
    \/ LET row == StatementRow(t, columns, rec)
       IN  \/ \E c \in NOT_NULL(t) : row[c] = NULL
           \/ ~ CHECK(t, row)

\* the rows after a statement that is not refused: the rows that collide with
\* the new one are deleted, the new one is inserted
execute(t, columns, rec, rows) ==
    LET row == StatementRow(t, columns, rec)
    IN  Append(SelectSeq(rows, LAMBDA r : ~ Conflicts(t, r, row)), row)

(***************************************************************************)
(* DatabaseManager.insert_batch                                            *)
(***************************************************************************)
RECURSIVE execute_all(_, _, _, _, _)
\* the for loop of insert_batch from record i on, on the open transaction
execute_all(t, columns, records, i, rows) ==
    IF i > Len(records) THEN [ok |-> TRUE, rows |-> rows, count |-> i - 1]
    ELSE IF ~ (columns \subseteq DOMAIN records[i])
         THEN [ok |-> FALSE, rows |-> rows, count |-> i - 1]      \* KeyError
    ELSE IF StatementFails(t, columns, records[i])
         THEN [ok |-> FALSE, rows |-> rows, count |-> i - 1]      \* sqlite3.Error
    ELSE execute_all(t, columns, records, i + 1,
                     execute(t, columns, records[i], rows))

\* mutant: the failed transaction is not rolled back
insert_batch_no_rollback(committed, t, records, ioError) ==
    IF records = <<>> THEN [rows |-> committed, raised |-> FALSE, count |-> 0]
    ELSE LET run == execute_all(t, DOMAIN records[1], records, 1, committed)
         IN  IF run.ok /\ ~ ioError
             THEN [rows |-> run.rows, raised |-> FALSE, count |-> run.count]
             ELSE [rows |-> run.rows, raised |-> TRUE, count |-> run.count]

\* the rows of table t after the call, whether it raised, and its count
insert_batch(committed, t, records, ioError) ==
    IF records = <<>> THEN [rows |-> committed, raised |-> FALSE, count |-> 0]
    ELSE LET run == execute_all(t, DOMAIN records[1], records, 1, committed)
         IN  IF run.ok /\ ~ ioError
             THEN [rows |-> run.rows, raised |-> FALSE, count |-> run.count]
             ELSE [rows |-> committed, raised |-> TRUE, count |-> run.count]

(***************************************************************************)
(* The store under arbitrary callers: any batch, any I/O failure.          *)
(***************************************************************************)
MaxBatch == 2

MaxRows == 2

\* an inventory_daily record as the fetchers build it (a dict, one key per column)
InventoryRecord(cat, wh, inv) ==
    [date |-> Some("2024-01-02"), exchange |-> Some("COMEX"),
     metal |-> Some("gold"), category |-> cat, warehouse |-> wh,
     inventory |-> inv, unit |-> Some("oz"), source |-> Some("cme_xls")]

\* a record without the inventory key
RecordWithoutInventory ==
    [date |-> Some("2024-01-02"), exchange |-> Some("COMEX"),
     metal |-> Some("gold"), category |-> Some("registered"),
     warehouse |-> Some("WH1"), unit |-> Some("oz"), source |-> Some("cme_xls")]

\* the records a caller may pass: well-formed ones, None in a key column,
\* a category the CHECK refuses, None as value, a missing dict key
StoreRecords ==
    {InventoryRecord(cat, Some("WH1"), Some(v)) :
        cat \in {Some("registered"), NULL}, v \in {100, 150}}
    \cup {InventoryRecord(Some("delivery_volume"), Some("WH1"), Some(100)),
          InventoryRecord(Some("registered"), Some("WH1"), NULL),
          RecordWithoutInventory}

StoreBatches == UNION {[1..n -> StoreRecords] : n \in 0..MaxBatch}

\* some write of the call fails: a record is refused, or the commit is
WriteFails(t, records, ioError) ==
    /\ records # <<>>
    /\ \/ ioError
       \/ \E i \in 1..Len(records) :
             \/ ~ (DOMAIN records[1] \subseteq DOMAIN records[i])
             \/ StatementFails(t, DOMAIN records[1], records[i])

\* the natural key record i of a batch is stored under
BatchKey(t, records, i) ==
    KeyOf(t, StatementRow(t, DOMAIN records[1], records[i]))

\* the value record i of a batch carries
BatchValue(t, records, i) ==
    NewRow(t, DOMAIN records[1], records[i])[ValueColumn(t)]

RECURSIVE LastOfBatch(_, _, _, _)
\* key -> value of the last record with that key, over a committed batch
LastOfBatch(t, records, i, old) ==
    IF i > Len(records) THEN old
    ELSE LastOfBatch(t, records, i + 1,
                     (BatchKey(t, records, i) :> BatchValue(t, records, i)) @@ old)

\* the open transaction holds changes when the loop of the call ends
Uncommitted(committed, t, records) ==
    /\ records # <<>>
    /\ execute_all(t, DOMAIN records[1], records, 1, committed).rows # committed

\* the tables of a new database
InitialTables == [t \in TableNames |-> <<>>]

InitStore ==
    /\ tables = InitialTables
    /\ lastCall = [writeFails |-> FALSE, ioError |-> FALSE, raised |-> FALSE,
                   count |-> 0, uncommitted |-> FALSE]
    /\ lastWritten = [t \in TableNames |-> <<>>]

\* a caller calls db.insert_batch(t, records); conn.commit() may fail when the
\* call gets that far
InsertBatch ==
    \E records \in StoreBatches :
        LET t == "inventory_daily"
            res == insert_batch(tables[t], t, records, FALSE)
        IN  \E ioError \in IF records # <<>> /\ ~ res.raised THEN BOOLEAN ELSE {FALSE} :
                LET rows == IF ioError
                            THEN insert_batch(tables[t], t, records, TRUE).rows
                            ELSE res.rows
                    raised == IF ioError
                              THEN insert_batch(tables[t], t, records, TRUE).raised
                              ELSE res.raised
                IN  /\ Len(rows) <= MaxRows
                    /\ tables' = [tables EXCEPT ![t] = rows]
                    /\ lastCall' = [writeFails |-> WriteFails(t, records, ioError),
                                    ioError |-> ioError,
                                    raised |-> raised, count |-> res.count,
                                    uncommitted |-> Uncommitted(tables[t], t, records)]
                    /\ lastWritten' =
                          IF raised \/ records = <<>> THEN lastWritten
                          ELSE [lastWritten EXCEPT ![t] = LastOfBatch(t, records, 1, @)]
                    /\ UNCHANGED <<gapVars, chainVars, shfeVars, runVars, pipeVars, execVars>>

(***************************************************************************)
(* check_gaps.py check_gaps_for_series.  A date is a day number; day 0 is  *)
(* a Monday, so day n is a business day iff n % 7 < 5.                     *)
(***************************************************************************)
IsBusinessDay(n) == n % 7 < 5

RECURSIVE bdate_range(_, _)
\* pd.bdate_range(start, end): the business days of start..end, ascending
bdate_range(a, b) ==
    IF a > b THEN <<>>
    ELSE IF IsBusinessDay(a) THEN <<a>> \o bdate_range(a + 1, b)
    ELSE bdate_range(a + 1, b)

\* SELECT DISTINCT date ... WHERE date >= start_date, as a set
existing_dates(in) == {d \in in.stored : d >= in.start}

\* the business days of start_date..today with no stored row
missing_dates(in) ==
    SelectSeq(bdate_range(in.start, in.today),
              LAMBDA d : d \notin existing_dates(in))

RECURSIVE group_loop_calendar(_, _, _, _)
\* mutant: two dates are adjacent when they are consecutive calendar days
group_loop_calendar(missing, i, gaps, current_gap) ==
    IF i > Len(missing)
    THEN IF current_gap # <<>> THEN Append(gaps, current_gap) ELSE gaps
    ELSE IF current_gap = <<>>
         THEN group_loop_calendar(missing, i + 1, gaps, <<missing[i]>>)
    ELSE IF missing[i] - current_gap[Len(current_gap)] = 1
         THEN group_loop_calendar(missing, i + 1, gaps, Append(current_gap, missing[i]))
    ELSE group_loop_calendar(missing, i + 1, Append(gaps, current_gap), <<missing[i]>>)

RECURSIVE group_loop(_, _, _, _)
\* the for loop over missing_dates from index i on
group_loop(missing, i, gaps, current_gap) ==
    IF i > Len(missing)
    THEN IF current_gap # <<>> THEN Append(gaps, current_gap) ELSE gaps
    ELSE IF current_gap = <<>>
         THEN group_loop(missing, i + 1, gaps, <<missing[i]>>)
    ELSE IF Len(bdate_range(current_gap[Len(current_gap)], missing[i])) = 2
         THEN group_loop(missing, i + 1, gaps, Append(current_gap, missing[i]))
    ELSE group_loop(missing, i + 1, Append(gaps, current_gap), <<missing[i]>>)

\* mutant: a group of exactly 3 days is dropped too
major_gaps_over_3(gaps) == SelectSeq(gaps, LAMBDA g : Len(g) > 3)

\* the groups of fewer than 3 days are dropped
major_gaps(gaps) == SelectSeq(gaps, LAMBDA g : Len(g) >= 3)

RECURSIVE sort_by_len(_, _, _)
\* list.sort(key=len, reverse=True): stable, longest first
sort_by_len(gs, i, sorted) ==
    IF i > Len(gs) THEN sorted
    ELSE LET pos == Cardinality({k \in 1..Len(sorted) : Len(sorted[k]) >= Len(gs[i])})
         IN  sort_by_len(gs, i + 1,
                         SubSeq(sorted, 1, pos) \o <<gs[i]>>
                            \o SubSeq(sorted, pos + 1, Len(sorted)))

\* how many gaps the warning lists
ShownGaps == 5

\* mutant: the gaps are listed without the sort
logged_gaps_unsorted(major) ==
    LET shown == SubSeq(major, 1, IF Len(major) < ShownGaps THEN Len(major) ELSE ShownGaps)
    IN  [k \in 1..Len(shown) |->
            [start |-> shown[k][1], end |-> shown[k][Len(shown[k])], length |-> Len(shown[k])]]

\* major_gaps[:5] after the sort, each logged as (g[0], g[-1], len(g))
logged_gaps(major) ==
    LET sorted == sort_by_len(major, 1, <<>>)
        shown == SubSeq(sorted, 1, IF Len(sorted) < ShownGaps THEN Len(sorted) ELSE ShownGaps)
    IN  [k \in 1..Len(shown) |->
            [start |-> shown[k][1], end |-> shown[k][Len(shown[k])], length |-> Len(shown[k])]]

\* the whole call: what it computes and what it logs
check_gaps_for_series(in) ==
    LET missing == missing_dates(in)
        gaps == group_loop(missing, 1, <<>>, <<>>)
        major == major_gaps(gaps)
    IN  IF missing = <<>>
        THEN [log |-> "complete", gaps |-> <<>>, major |-> <<>>, found |-> 0,
              shown |-> <<>>, truncated |-> FALSE]
        ELSE IF major = <<>>
        THEN [log |-> "minor", gaps |-> gaps, major |-> <<>>, found |-> 0,
              shown |-> <<>>, truncated |-> FALSE]
        ELSE [log |-> "warning", gaps |-> gaps, major |-> major, found |-> Len(major),
              shown |-> logged_gaps(major), truncated |-> Len(major) > ShownGaps]

(***************************************************************************)
(* The detector's inputs: every set of stored dates over a short range,    *)
(* and long ranges made of runs of missing business days.                  *)
(***************************************************************************)
MaxSpan == 10

MaxRuns == 6

\* the i-th business day from day 0 on (i = 0 is Monday, day 0)
BDay(i) == 7 * (i \div 5) + (i % 5)

RECURSIVE RunsMissing(_, _, _)
\* business-day indices of runs of the given lengths, one observed day between
RunsMissing(runs, j, s) ==
    IF j > Len(runs) THEN {}
    ELSE (s..(s + runs[j] - 1)) \cup RunsMissing(runs, j + 1, s + runs[j] + 1)

RECURSIVE SumLen(_, _)
SumLen(runs, j) == IF j > Len(runs) THEN 0 ELSE runs[j] + 1 + SumLen(runs, j + 1)

\* start_date a Monday, today the day after the last run, the runs missing
RunsInput(runs) ==
    LET n == SumLen(runs, 1)
    IN  [start |-> 0, today |-> BDay(n - 1),
         stored |-> {BDay(i) : i \in (0..(n - 1)) \ RunsMissing(runs, 1, 0)}]

\* the short ranges start on any weekday; a date before start_date may be stored
GapInputs ==
    {[start |-> s, today |-> s + MaxSpan - 2, stored |-> {d + s - 1 : d \in st}] :
        s \in 1..7, st \in SUBSET (0..(MaxSpan - 1))}
    \cup {RunsInput(runs) : runs \in UNION {[1..n -> {2, 3, 4}] : n \in 1..MaxRuns}}

(***************************************************************************)
(* Provider chains.  A chain function tries its providers one after the    *)
(* other; the model keeps the log of the provider calls it made.           *)
(***************************************************************************)
\* one provider call: what it returned, or that it raised
Call(provider, returned, raised) ==
    [provider |-> provider, returned |-> returned, raised |-> raised]

\* the chain function returns records to its caller
Return(calls, records) == [calls |-> calls, records |-> records, raised |-> FALSE]

\* an exception leaves the chain function
Raise(calls) == [calls |-> calls, records |-> <<>>, raised |-> TRUE]

\* seq[-n:], the last n elements
Tail_n(seq, n) == IF Len(seq) <= n THEN seq ELSE SubSeq(seq, Len(seq) - n + 1, Len(seq))

\* max_retries of the retrying provider calls
max_retries == 4

\* round(x, 4) of a rate given in units of 0.00001, stored in units of 0.0001
\* (the rates of the model are no ties)
round_4(x) == (x + 5) \div 10

(***************************************************************************)
(* FXFetcher, fx_fetcher.py                                                *)
(***************************************************************************)
\* _fetch_via_akshare: every failure is caught inside and gives []
_fetch_via_akshare(resp, today) ==
    IF resp.kind # "frame" THEN <<>>                 \* raised, None or empty frame
    ELSE IF ~ resp.usd_row THEN <<>>                 \* no USD/CNY row
    ELSE IF resp.ask = NULL \/ resp.ask[1] = 0 THEN <<>>   \* pd.isna(ask) or not ask
    ELSE << [date |-> Some(today), pair |-> Some("USDCNH"),
             rate |-> Some(round_4(resp.ask[1])), source |-> Some("akshare")] >>

\* the retry loop: the frame of the first attempt that succeeds, None after
\* max_retries failed attempts
history_df(resp) == IF resp.failed >= max_retries THEN NULL ELSE Some(resp.rows)

RECURSIVE yfinance_rows(_, _, _)
\* for idx, row in df.iterrows(), from row i on: a row that cannot be converted
\* raises, which ends the loop with the records appended so far; a NaN close
\* gives a NaN rate, which SQLite binds as NULL
yfinance_rows(rows, i, records) ==
    IF i > Len(rows) THEN records
    ELSE IF rows[i].bad THEN records
    ELSE yfinance_rows(rows, i + 1,
            Append(records,
                   [date |-> Some(rows[i].date), pair |-> Some("USDCNH"),
                    rate |-> IF rows[i].close = NULL THEN NULL
                             ELSE Some(round_4(rows[i].close[1])),
                    source |-> Some("yfinance")]))

\* _fetch_via_yfinance: every failure is caught inside
_fetch_via_yfinance(resp) ==
    IF resp.kind # "history" THEN <<>>               \* import yfinance raised
    ELSE IF history_df(resp) = NULL THEN <<>>
    ELSE yfinance_rows(history_df(resp)[1], 1, <<>>)

\* fetch_usdcnh
fetch_usdcnh(env) ==
    LET a == _fetch_via_akshare(env.akshare, env.today)
        y == _fetch_via_yfinance(env.yfinance)
        ca == Call("akshare", a, FALSE)
    IN  IF a # <<>> THEN Return(<<ca>>, a)
        ELSE IF env.PM_SKIP_YFINANCE # "1"
             THEN Return(<<ca, Call("yfinance", y, FALSE)>>, y)
        ELSE Return(<<ca>>, <<>>)

(***************************************************************************)
(* CFTCFetcher, cftc_fetcher.py                                            *)
(***************************************************************************)
\* a value as the upstream serves it: absent (no such column or key, None),
\* NaN, a number or a numeric string, or a text float() refuses
RawNone == [kind |-> "none", v |-> 0]

RawNaN == [kind |-> "nan", v |-> 0]

RawNum(n) == [kind |-> "number", v |-> n]

RawText == [kind |-> "text", v |-> 0]

\* _api_float(item, key): None for a missing key, None or a value float()
\* refuses
_api_float(val) == IF val.kind = "number" THEN Some(val.v) ELSE NULL

RECURSIVE _safe_float(_, _)
\* _safe_float(row, *col_names): the first of the candidate columns, in the
\* order the loops visit them, that is not NaN and that float() accepts
_safe_float(cols, i) ==
    IF i > Len(cols) THEN NULL
    ELSE IF cols[i].kind = "number" THEN Some(cols[i].v)
    ELSE _safe_float(cols, i + 1)

\* cot_record that takes a missing leg for 0
cot_record_zero_default(date, metal, ncl, ncs, cl, cs, source) ==
    [report_date |-> date, market |-> Some("COMEX"), metal |-> Some(metal),
     non_commercial_long |-> ncl, non_commercial_short |-> ncs,
     commercial_long |-> cl, commercial_short |-> cs,
     net_position |-> Some((IF ncl = NULL THEN 0 ELSE ncl[1])
                           - (IF ncs = NULL THEN 0 ELSE ncs[1])),
     source |-> Some(source)]

\* the record of a COT row; net_position only when both legs are known
cot_record(date, metal, ncl, ncs, cl, cs, source) ==
    [report_date |-> date, market |-> Some("COMEX"), metal |-> Some(metal),
     non_commercial_long |-> ncl, non_commercial_short |-> ncs,
     commercial_long |-> cl, commercial_short |-> cs,
     net_position |-> IF ncl # NULL /\ ncs # NULL THEN Some(ncl[1] - ncs[1]) ELSE NULL,
     source |-> Some(source)]

\* _extract_cot_row: None when the row has no date
_extract_cot_row(row, metal, source) ==
    IF row.date = NULL THEN <<>>
    ELSE << cot_record(row.date, metal, _safe_float(row.ncl, 1), _safe_float(row.ncs, 1),
                       _safe_float(row.cl, 1), _safe_float(row.cs, 1), source) >>

RECURSIVE extract_rows(_, _, _, _)
\* for _, row in sub.tail(4).iterrows(): the records of the rows that give one
extract_rows(rows, i, metal, records) ==
    IF i > Len(rows) THEN records
    ELSE extract_rows(rows, i + 1, metal,
                      records \o _extract_cot_row(rows[i], metal, "pycot"))

\* the rows whose contract name holds a keyword of the metal
cot_sub(rows, keyword) == SelectSeq(rows, LAMBDA r : r.name = keyword)

\* _fetch_via_pycot; the import or the download may raise
_fetch_via_pycot(resp) ==
    IF resp.kind = "raises" THEN [raised |-> TRUE, records |-> <<>>]
    ELSE IF resp.rows = <<>> THEN [raised |-> FALSE, records |-> <<>>]
    ELSE [raised |-> FALSE,
          records |->
             extract_rows(Tail_n(cot_sub(resp.rows, "GOLD"), 4), 1, "gold", <<>>)
             \o extract_rows(Tail_n(cot_sub(resp.rows, "SILVER"), 4), 1, "silver", <<>>)]

\* the retry loop of _fetch_via_api: the JSON of the first attempt that
\* succeeds, None after max_retries failed attempts
api_data(resp) == IF resp.failed >= max_retries THEN NULL ELSE Some(resp.data)

RECURSIVE api_items(_, _, _, _)
\* for item in data, from item i on; an item without a report date is skipped
api_items(items, i, metal, records) ==
    IF i > Len(items) THEN records
    ELSE IF items[i].date = NULL THEN api_items(items, i + 1, metal, records)
    ELSE api_items(items, i + 1, metal,
            Append(records,
                   cot_record(items[i].date, metal, _api_float(items[i].ncl),
                              _api_float(items[i].ncs), _api_float(items[i].cl),
                              _api_float(items[i].cs), "cftc_api")))

\* one metal of _fetch_via_api: no data, a payload that is not a list of
\* objects (item.get raises), or the records of the items
api_metal(resp, metal) ==
    IF api_data(resp) = NULL \/ resp.data.kind = "empty"
    THEN [raised |-> FALSE, records |-> <<>>]
    ELSE IF resp.data.kind = "object" THEN [raised |-> TRUE, records |-> <<>>]
    ELSE [raised |-> FALSE, records |-> api_items(resp.data.items, 1, metal, <<>>)]

\* _fetch_via_api(year): gold, then silver; an exception loses both
_fetch_via_api(resp) ==
    LET g == api_metal(resp.gold, "gold")
        s == api_metal(resp.silver, "silver")
    IN  IF g.raised \/ s.raised THEN [raised |-> TRUE, records |-> <<>>]
        ELSE [raised |-> FALSE, records |-> g.records \o s.records]

\* fetch_cot_report
fetch_cot_report(env) ==
    LET p == _fetch_via_pycot(env.pycot)
        a1 == _fetch_via_api(env.api_year)
        a2 == _fetch_via_api(env.api_prev_year)
        cp == Call("pycot", p.records, p.raised)
        c1 == Call("cftc_api(year)", a1.records, a1.raised)
        c2 == Call("cftc_api(year-1)", a2.records, a2.raised)
    IN  IF p.records # <<>> THEN Return(<<cp>>, p.records)
        ELSE IF a1.records # <<>> THEN Return(<<cp, c1>>, a1.records)
        ELSE IF a2.records # <<>> THEN Return(<<cp, c1, c2>>, a2.records)
        ELSE Return(<<cp, c1, c2>>, <<>>)

(***************************************************************************)
(* PriceFetcher.fetch_lbma_spot, price_fetcher.py                          *)
(***************************************************************************)
\* the names bound at module level in price_fetcher.py (its imports, logger
\* and class)
PriceFetcherGlobals ==
    {"json", "logging", "os", "datetime", "timedelta", "Any", "ak", "pd",
     "Fetcher", "StealthyFetcher", "DatabaseManager", "logger", "PriceFetcher"}

\* reading a global name that is not bound raises NameError
NameError(name) == name \notin PriceFetcherGlobals

\* a spot_prices_daily record of the LBMA market
lbma_record(date, metal, price, source) ==
    [date |-> Some(date), market |-> Some("LBMA"), metal |-> Some(metal),
     price |-> Some(price), currency |-> Some("USD"), source |-> Some(source)]

RECURSIVE sina_lines(_, _, _)
\* for line in resp.text.strip().split('\n'), from line i on: lines without a
\* quote or with fewer than 13 fields are skipped, float(data[0]) may raise
sina_lines(lines, i, records) ==
    IF i > Len(lines) THEN [raised |-> FALSE, records |-> records]
    ELSE IF lines[i].kind \in {"other", "short"} THEN sina_lines(lines, i + 1, records)
    ELSE IF lines[i].kind = "bad_price" THEN [raised |-> TRUE, records |-> records]
    ELSE sina_lines(lines, i + 1,
            Append(records,
                   lbma_record(lines[i].date,
                               IF lines[i].symbol = "XAU" THEN "gold" ELSE "silver",
                               lines[i].price, "sina_hq")))

\* the first cell after the name that holds a number, if any
first_number(cells) ==
    LET nums == {k \in 2..Len(cells) : cells[k] # NULL}
    IN  IF nums = {} THEN NULL
        ELSE cells[CHOOSE k \in nums : \A j \in nums : k <= j]

\* one row of the LBMA page: a row naming a metal with at least 2 cells is
\* searched with re.search inside try/except Exception: continue
lbma_row(row, today) ==
    IF row.text = "OTHER" \/ Len(row.cells) < 2 THEN <<>>
    ELSE IF NameError("re") THEN <<>>
    ELSE IF first_number(row.cells) = NULL THEN <<>>
    ELSE << lbma_record(today, IF row.text = "GOLD" THEN "gold" ELSE "silver",
                        first_number(row.cells)[1], "scrapling_lbma_web") >>

RECURSIVE lbma_rows(_, _, _, _)
\* for row in rows, from row i on
lbma_rows(rows, i, today, records) ==
    IF i > Len(rows) THEN records
    ELSE lbma_rows(rows, i + 1, today, records \o lbma_row(rows[i], today))

\* _fetch_lbma_spot_scrapling: every failure is caught inside
_fetch_lbma_spot_scrapling(resp, today) ==
    IF resp.kind = "raises" THEN <<>>
    ELSE IF resp.status # 200 THEN <<>>
    ELSE lbma_rows(resp.rows, 1, today, <<>>)

RECURSIVE yahoo_closes(_, _, _, _)
\* for t, p in zip(timestamps, close_prices): a None close is skipped
yahoo_closes(closes, i, metal, records) ==
    IF i > Len(closes) THEN records
    ELSE IF closes[i].close = NULL THEN yahoo_closes(closes, i + 1, metal, records)
    ELSE yahoo_closes(closes, i + 1, metal,
            Append(records,
                   lbma_record(closes[i].date, metal, closes[i].close[1],
                               "yahoo_api_cffi_fallback")))

\* one ticker of the Yahoo loop, inside its try/except Exception: pass
yahoo_metal(resp, metal) ==
    IF resp.kind = "raises" THEN <<>>
    ELSE IF resp.status # 200 THEN <<>>
    ELSE yahoo_closes(resp.closes, 1, metal, <<>>)

\* _fetch_lbma_spot_yahoo_fallback: the proxies line of the loop reads
\* USE_PROXY before the try
_fetch_lbma_spot_yahoo_fallback(env) ==
    IF env.PM_SKIP_YFINANCE = "1" THEN [raised |-> FALSE, records |-> <<>>]
    ELSE IF NameError("USE_PROXY") THEN [raised |-> TRUE, records |-> <<>>]
    ELSE [raised |-> FALSE,
          records |-> yahoo_metal(env.yahoo.gold, "gold")
                      \o yahoo_metal(env.yahoo.silver, "silver")]

\* the try block of fetch_lbma_spot: the calls made in it, and whether it
\* returned (an exception raised in it, by Yahoo too, is caught by its except)
sina_try(env) ==
    LET s == env.sina
        parsed == sina_lines(s.lines, 1, <<>>)
        y == _fetch_lbma_spot_yahoo_fallback(env)
    IN  IF s.kind = "raises"
        THEN [calls |-> <<Call("sina", <<>>, TRUE)>>, returned |-> FALSE, records |-> <<>>]
        ELSE IF s.status # 200
        THEN [calls |-> <<Call("sina", <<>>, FALSE), Call("yahoo", y.records, y.raised)>>,
              returned |-> ~ y.raised, records |-> y.records]
        ELSE IF parsed.raised
        THEN [calls |-> <<Call("sina", <<>>, TRUE)>>, returned |-> FALSE, records |-> <<>>]
        ELSE IF parsed.records # <<>>
        THEN [calls |-> <<Call("sina", parsed.records, FALSE)>>, returned |-> TRUE,
              records |-> parsed.records]
        ELSE [calls |-> <<Call("sina", <<>>, FALSE)>>, returned |-> FALSE, records |-> <<>>]

\* fetch_lbma_spot
fetch_lbma_spot(env) ==
    LET tried == sina_try(env)
        w == _fetch_lbma_spot_scrapling(env.lbma_web, env.today)
        y == _fetch_lbma_spot_yahoo_fallback(env)
        cw == Call("lbma_web", w, FALSE)
        cy == Call("yahoo", y.records, y.raised)
    IN  IF tried.returned THEN Return(tried.calls, tried.records)
        ELSE IF w # <<>> THEN Return(tried.calls \o <<cw>>, w)
        ELSE IF y.raised THEN Raise(tried.calls \o <<cw, cy>>)
        ELSE Return(tried.calls \o <<cw, cy>>, y.records)

(***************************************************************************)
(* What the providers of a chain may answer.                               *)
(***************************************************************************)
MaxPayload == 2

\* the sequences of up to MaxPayload elements of S
Payloads(S) == UNION {[1..n -> S] : n \in 0..MaxPayload}

Today == "2024-01-05"

AkshareResponses ==
    {[kind |-> "raises", usd_row |-> FALSE, ask |-> NULL],
     [kind |-> "frame", usd_row |-> FALSE, ask |-> NULL]}
    \cup {[kind |-> "frame", usd_row |-> TRUE, ask |-> a] :
             a \in {NULL, Some(0), Some(712344), Some(712346)}}

YfinanceRows ==
    {[date |-> "2024-01-04", close |-> c, bad |-> b] :
        c \in {NULL, Some(712344)}, b \in BOOLEAN}

YfinanceResponses ==
    {[kind |-> "raises", failed |-> 0, rows |-> <<>>]}
    \cup {[kind |-> "history", failed |-> f, rows |-> r] :
             f \in {0, 3, 4}, r \in Payloads(YfinanceRows)}

FxEnvs ==
    {[today |-> Today, PM_SKIP_YFINANCE |-> skip, akshare |-> a, yfinance |-> y] :
        skip \in {"0", "1"}, a \in AkshareResponses, y \in YfinanceResponses}

\* rows of the COT frame; of a leg the candidate columns in search order
CotRows ==
    {[name |-> "GOLD", date |-> Some("2024-01-02"), ncl |-> <<RawNum(300)>>,
      ncs |-> <<RawNum(100)>>, cl |-> <<RawNum(50)>>, cs |-> <<RawNum(250)>>],
     [name |-> "GOLD", date |-> NULL, ncl |-> <<RawNum(300)>>,
      ncs |-> <<RawNum(100)>>, cl |-> <<RawNum(50)>>, cs |-> <<RawNum(250)>>],
     [name |-> "SILVER", date |-> Some("2024-01-02"), ncl |-> <<RawNaN, RawText>>,
      ncs |-> <<RawNaN, RawNum(100)>>, cl |-> <<RawNum(50)>>, cs |-> <<>>],
     [name |-> "WHEAT", date |-> Some("2024-01-02"), ncl |-> <<RawNum(300)>>,
      ncs |-> <<RawNum(100)>>, cl |-> <<RawNum(50)>>, cs |-> <<RawNum(250)>>]}

PycotResponses ==
    {[kind |-> "raises", rows |-> <<>>]}
    \cup {[kind |-> "frame", rows |-> r] : r \in Payloads(CotRows)}

ApiItem(date, ncl, ncs) ==
    [date |-> date, ncl |-> ncl, ncs |-> ncs, cl |-> RawNum(50), cs |-> RawNum(250)]

ApiData ==
    {[kind |-> "empty", items |-> <<>>], [kind |-> "object", items |-> <<>>]}
    \cup {[kind |-> "items", items |-> i] :
             i \in {<<ApiItem(Some("2023-12-26"), RawNum(300), RawNum(100))>>,
                    <<ApiItem(NULL, RawNum(300), RawNum(100))>>,
                    <<ApiItem(Some("2023-12-26"), RawNone, RawNum(100))>>,
                    <<ApiItem(NULL, RawNum(300), RawNum(100)),
                      ApiItem(Some("2023-12-26"), RawNum(300), RawText)>>}}

\* one metal's answers: all attempts fail, or an attempt gives a payload
ApiMetalResponses(data) ==
    {[failed |-> 4, data |-> [kind |-> "empty", items |-> <<>>]]}
    \cup {[failed |-> 1, data |-> d] : d \in data}

ApiResponses ==
    {[gold |-> g, silver |-> s] :
        g \in ApiMetalResponses(ApiData),
        s \in ApiMetalResponses({d \in ApiData : Len(d.items) <= 1})}

CotEnvs ==
    {[pycot |-> p, api_year |-> a1, api_prev_year |-> a2] :
        p \in PycotResponses, a1 \in ApiResponses,
        a2 \in {a \in ApiResponses : a.silver.failed = 4}}

SinaLines ==
    {[kind |-> "other", symbol |-> "XAU", price |-> 0, date |-> Today],
     [kind |-> "bad_price", symbol |-> "XAU", price |-> 0, date |-> Today],
     [kind |-> "quote", symbol |-> "XAU", price |-> 2700, date |-> Today],
     [kind |-> "quote", symbol |-> "XAG", price |-> 31, date |-> Today]}

SinaResponses ==
    {[kind |-> "raises", status |-> 0, lines |-> <<>>],
     [kind |-> "response", status |-> 503, lines |-> <<>>]}
    \cup {[kind |-> "response", status |-> 200, lines |-> l] : l \in Payloads(SinaLines)}

LbmaWebRows ==
    {[text |-> "OTHER", cells |-> <<Some(0), Some(1)>>],
     [text |-> "GOLD", cells |-> <<NULL>>],
     [text |-> "GOLD", cells |-> <<NULL, NULL, Some(2701)>>],
     [text |-> "SILVER", cells |-> <<NULL, Some(32)>>]}

LbmaWebResponses ==
    {[kind |-> "raises", status |-> 0, rows |-> <<>>],
     [kind |-> "response", status |-> 403, rows |-> <<>>]}
    \cup {[kind |-> "response", status |-> 200, rows |-> r] : r \in Payloads(LbmaWebRows)}

YahooResponses ==
    {[kind |-> "raises", status |-> 0, closes |-> <<>>],
     [kind |-> "response", status |-> 429, closes |-> <<>>],
     [kind |-> "response", status |-> 200,
      closes |-> <<[date |-> "2024-01-04", close |-> NULL],
                   [date |-> Today, close |-> Some(2702)]>>]}

\* the page is only asked when Sina gave nothing; one table row is enough to
\* take each branch of the row loop
LbmaEnvs ==
    {[today |-> Today, PM_SKIP_YFINANCE |-> skip, sina |-> s, lbma_web |-> w,
      yahoo |-> [gold |-> y, silver |-> y]] :
        skip \in {"0", "1"}, s \in SinaResponses,
        w \in {r \in LbmaWebResponses : Len(r.rows) <= 1}, y \in YahooResponses}

ChainInputs ==
    {[fn |-> "fetch_usdcnh", env |-> e] : e \in FxEnvs}
    \cup {[fn |-> "fetch_cot_report", env |-> e] : e \in CotEnvs}
    \cup {[fn |-> "fetch_lbma_spot", env |-> e] : e \in LbmaEnvs}

NotCalled == [calls |-> <<>>, records |-> <<>>, raised |-> FALSE, done |-> FALSE]

\* the chain function ran: what it handed back
Done(res) == [calls |-> res.calls, records |-> res.records, raised |-> res.raised,
              done |-> TRUE]

\* FXFetcher.fetch_usdcnh() is called
FetchUsdcnh ==
    /\ chainIn.fn = "fetch_usdcnh"
    /\ chainOut = NotCalled
    /\ chainOut' = Done(fetch_usdcnh(chainIn.env))
    /\ UNCHANGED <<chainIn, storeVars, gapVars, shfeVars, runVars, pipeVars, execVars>>

\* CFTCFetcher.fetch_cot_report() is called
FetchCotReport ==
    /\ chainIn.fn = "fetch_cot_report"
    /\ chainOut = NotCalled
    /\ chainOut' = Done(fetch_cot_report(chainIn.env))
    /\ UNCHANGED <<chainIn, storeVars, gapVars, shfeVars, runVars, pipeVars, execVars>>

\* PriceFetcher.fetch_lbma_spot() is called
FetchLbmaSpot ==
    /\ chainIn.fn = "fetch_lbma_spot"
    /\ chainOut = NotCalled
    /\ chainOut' = Done(fetch_lbma_spot(chainIn.env))
    /\ UNCHANGED <<chainIn, storeVars, gapVars, shfeVars, runVars, pipeVars, execVars>>

(***************************************************************************)
(* InventoryFetcher.fetch_shfe, inventory_fetcher.py                       *)
(***************************************************************************)
\* for offset in range(7)
LOOKBACK_DAYS == 7

\* if continuous_404_count >= 3
ALERT_THRESHOLD == 3

RECURSIVE shfe_items(_, _, _, _)
\* for item in data.get("o_cursor", []), from item i on: an item that is not an
\* object raises; other varieties and weights that are not positive are skipped
shfe_items(items, i, date, records) ==
    IF i > Len(items) THEN [raised |-> FALSE, records |-> records]
    ELSE IF items[i].VARNAME = "malformed" THEN [raised |-> TRUE, records |-> records]
    ELSE IF items[i].VARNAME \notin {"AU", "AG"} \/ items[i].WRTWGHTS <= 0
         THEN shfe_items(items, i + 1, date, records)
    ELSE shfe_items(items, i + 1, date,
            Append(records,
                   [date |-> Some(date), exchange |-> Some("SHFE"),
                    metal |-> Some(IF items[i].VARNAME = "AU" THEN "gold" ELSE "silver"),
                    category |-> Some("warehouse"), warehouse |-> Some("WH1"),
                    inventory |-> Some(items[i].WRTWGHTS), unit |-> Some("kg"),
                    source |-> Some("shfe_json_scrapling")]))

RECURSIVE shfe_loop(_, _, _, _, _, _)
\* the lookback loop from the given offset on.  trace lists the requests and
\* the sleeps; the continue statements skip the sleep at the end of the body
shfe_loop(responses, target, offset, records, continuous_404_count, trace) ==
    IF offset >= LOOKBACK_DAYS
    THEN [records |-> records, count |-> continuous_404_count, exhausted |-> TRUE,
          trace |-> trace]
    ELSE LET r == responses[offset + 1]
             t == Append(trace, [event |-> "request", offset |-> offset])
             continue(c) == shfe_loop(responses, target, offset + 1, records, c, t)
             sleep(recs, c) ==
                 shfe_loop(responses, target, offset + 1, recs, c,
                           Append(t, [event |-> "sleep", offset |-> offset]))
             parsed == shfe_items(r.items, 1, target - offset, records)
         IN  IF r.kind = "raises" THEN sleep(records, continuous_404_count)
             ELSE IF r.status = 404 THEN continue(continuous_404_count + 1)
             ELSE IF r.status # 200 THEN continue(0)
             ELSE IF r.body = "bad_json" THEN continue(0)
             ELSE IF r.body = "not_object" THEN sleep(records, 0)
             ELSE IF parsed.raised THEN sleep(parsed.records, 0)
             ELSE IF parsed.records # <<>>
                  THEN [records |-> parsed.records, count |-> 0, exhausted |-> FALSE,
                        trace |-> t]
             ELSE sleep(parsed.records, 0)

\* fetch_shfe(date): the counter is a local that starts at 0; after a lookback
\* that ran out, the alert email is sent when the counter is at least 3
fetch_shfe(responses, target) ==
    LET run == shfe_loop(responses, target, 0, <<>>, 0, <<>>)
    IN  [records |-> run.records, continuous_404_count |-> run.count,
         exhausted |-> run.exhausted, trace |-> run.trace,
         alert |-> run.exhausted /\ run.count >= ALERT_THRESHOLD]

(***************************************************************************)
(* What the SHFE endpoint may answer over a lookback, and the process that *)
(* calls fetch_shfe again and again.                                       *)
(***************************************************************************)
MaxStreak == 5

ShfeRaises == [kind |-> "raises", status |-> 0, body |-> "", items |-> <<>>]

ShfeStatus(status) == [kind |-> "response", status |-> status, body |-> "", items |-> <<>>]

ShfeBody(body, items) == [kind |-> "response", status |-> 200, body |-> body, items |-> items]

ShfeItem(name, weight) == [VARNAME |-> name, WRTWGHTS |-> weight]

\* an answer without records: 200 with no item of gold or silver
ShfeEmpty == ShfeBody("json", <<>>)

\* the answers the model puts at one offset of a lookback
ShfeSpecial ==
    {ShfeEmpty, ShfeStatus(503), ShfeBody("bad_json", <<>>), ShfeBody("not_object", <<>>),
     ShfeBody("json", <<ShfeItem("CU", 500), ShfeItem("AU", 0)>>),
     ShfeBody("json", <<ShfeItem("AU", 900), ShfeItem("AG", 700)>>),
     ShfeBody("json", <<ShfeItem("AU", 900), ShfeItem("malformed", 0)>>)}

\* lookbacks of 404s and raising requests, of 404s and empty answers, and
\* lookbacks with one special answer among 404s or among raising requests
ShfeLookbacks ==
    [1..LOOKBACK_DAYS -> {ShfeStatus(404), ShfeRaises}]
    \cup [1..LOOKBACK_DAYS -> {ShfeStatus(404), ShfeEmpty}]
    \cup {[k \in 1..LOOKBACK_DAYS |-> IF k = at THEN r ELSE rest] :
             at \in 1..LOOKBACK_DAYS, r \in ShfeSpecial,
             rest \in {ShfeStatus(404), ShfeRaises}}

NoInvocation == [called |-> FALSE, alert |-> FALSE, exhausted |-> FALSE,
                 continuous_404_count |-> 0, failed |-> FALSE]

IdleShfe ==
    shfe = [streak |-> 0, streakAlerts |-> 0, last |-> NoInvocation]

\* the process calls fetch_shfe(); the invocation fails when it returns no
\* record, and a streak is a run of failing invocations
FetchShfe ==
    \E responses \in ShfeLookbacks :
        LET res == fetch_shfe(responses, 10)
            failed == res.records = <<>>
            sent == IF res.alert THEN 1 ELSE 0
        IN  /\ shfe.streak < MaxStreak
            /\ shfe' = [streak |-> IF failed THEN shfe.streak + 1 ELSE 0,
                        streakAlerts |-> IF failed THEN shfe.streakAlerts + sent ELSE 0,
                        last |-> [called |-> TRUE, alert |-> res.alert,
                                  exhausted |-> res.exhausted,
                                  continuous_404_count |-> res.continuous_404_count,
                                  failed |-> failed]]
            /\ UNCHANGED <<storeVars, gapVars, chainVars, runVars, pipeVars, execVars>>

(***************************************************************************)
(* ETFFetcher, etf_fetcher.py                                              *)
(***************************************************************************)
\* days: int = 5, the default window of fetch_etf
DEFAULT_DAYS == 5

\* fetch_days = 30, the window of the cold start
COLD_START_DAYS == 30

\* _ETF_MAP: symbol -> metal
ETF_MAP == [GLD |-> "gold", SLV |-> "silver"]

\* oz_per_share, in tenths of an ounce
oz_per_share(symbol) == IF symbol = "GLD" THEN 1 ELSE 10

\* SELECT COUNT(1) FROM etf_holdings_daily WHERE symbol = ?
etf_count(rows, symbol) ==
    Cardinality({i \in 1..Len(rows) : rows[i]["symbol"] = Some(symbol)})

\* the window asked of the upstream: 30 days when the store holds fewer than
\* 2 rows of the symbol, days otherwise
fetch_days(rows, symbol, days) ==
    IF etf_count(rows, symbol) < 2 THEN COLD_START_DAYS ELSE days

\* ticker.history(period=f"{fetch_days}d") through the retry loop: the last
\* fetch_days rows of the upstream's series, None after max_retries failures
etf_history(yf, symbol, n) ==
    IF yf.failed >= max_retries THEN NULL ELSE Some(Tail_n(yf.series[symbol], n))

RECURSIVE etf_rows(_, _, _, _, _)
\* for idx, row in df.iterrows(), from row i on: change is 0.0 for the first
\* row of the frame and shares - prev_shares for the others
etf_rows(df, i, symbol, prev_shares, records) ==
    IF i > Len(df) THEN records
    ELSE etf_rows(df, i + 1, symbol, Some(df[i].Volume),
            Append(records,
                   [date |-> Some(df[i].date), symbol |-> Some(symbol),
                    metal |-> Some(ETF_MAP[symbol]),
                    shares |-> Some(df[i].Volume),
                    ounces |-> Some((df[i].Volume * oz_per_share(symbol)) \div 10),
                    change |-> IF prev_shares = NULL THEN Some(0)
                               ELSE Some(df[i].Volume - prev_shares[1]),
                    source |-> Some("yfinance")]))

\* fetch_etf(symbol, days) against the rows of etf_holdings_daily
fetch_etf(rows, yf, symbol, days) ==
    IF symbol \notin DOMAIN ETF_MAP THEN <<>>
    ELSE IF yf.PM_SKIP_YFINANCE = "1" THEN <<>>
    ELSE LET df == etf_history(yf, symbol, fetch_days(rows, symbol, days))
         IN  IF df = NULL THEN <<>>
             ELSE etf_rows(df[1], 1, symbol, NULL, <<>>)

(***************************************************************************)
(* The update runs: fetch, then one insert_batch when there are records.   *)
(***************************************************************************)
\* the provider calls made and their records -> the table after the run,
\* whether the run raised, the count it returned and whether it called
\* insert_batch
update(rows, t, calls, records) ==
    IF records # <<>>
    THEN LET res == insert_batch(rows, t, records, FALSE)
         IN  [rows |-> res.rows, raised |-> res.raised, count |-> res.count,
              inserted |-> TRUE, calls |-> calls]
    ELSE [rows |-> rows, raised |-> FALSE, count |-> 0, inserted |-> FALSE,
          calls |-> calls]

\* the yfinance call of fetch_etf, none with PM_SKIP_YFINANCE=1
etf_calls(yf, records) ==
    IF yf.PM_SKIP_YFINANCE = "1" THEN <<>> ELSE <<Call("yfinance", records, FALSE)>>

\* ETFFetcher.update_daily: both symbols are fetched, then written
etf_update_daily(rows, yf) ==
    LET gld == fetch_etf(rows, yf, "GLD", DEFAULT_DAYS)
        slv == fetch_etf(rows, yf, "SLV", DEFAULT_DAYS)
    IN  update(rows, "etf_holdings_daily",
               etf_calls(yf, gld) \o etf_calls(yf, slv), gld \o slv)

\* FXFetcher.update_daily
fx_update_daily(rows, env) ==
    update(rows, "fx_rates_daily", fetch_usdcnh(env).calls, fetch_usdcnh(env).records)

\* update_if_report_day without its weekday test
update_if_report_day_ungated(rows, env, weekday) ==
    update(rows, "cftc_positions_weekly", fetch_cot_report(env).calls,
           fetch_cot_report(env).records)

\* CFTCFetcher.update_if_report_day: Fridays only, then update_weekly
update_if_report_day(rows, env, weekday) ==
    IF weekday # 4
    THEN [rows |-> rows, raised |-> FALSE, count |-> 0, inserted |-> FALSE,
          calls |-> <<>>]
    ELSE update(rows, "cftc_positions_weekly", fetch_cot_report(env).calls,
                fetch_cot_report(env).records)

(***************************************************************************)
(* The upstreams of the runs: they serve the same data at every run.       *)
(***************************************************************************)
MaxSeries == 6

\* a series of n trading days, day d with the volume volumes[d]
EtfSeries(volumes) ==
    [d \in 1..Len(volumes) |-> [date |-> d, Volume |-> volumes[d]]]

EtfUpstreams ==
    {[PM_SKIP_YFINANCE |-> "0", failed |-> 0,
      series |-> [GLD |-> EtfSeries(v), SLV |-> EtfSeries(w)]] :
        v \in UNION {[1..n -> {100, 130}] : n \in 0..MaxSeries},
        w \in {<<>>, <<40, 70, 70>>}}
    \cup {[PM_SKIP_YFINANCE |-> skip, failed |-> f,
           series |-> [GLD |-> EtfSeries(<<100, 130>>), SLV |-> EtfSeries(<<40>>)]] :
             skip \in {"0", "1"}, f \in {1, 4}}

FxUpstreams ==
    {e \in FxEnvs : e.PM_SKIP_YFINANCE = "0" /\ e.akshare.ask \in {NULL, Some(712346)}
                    /\ e.yfinance.failed = 0 /\ e.yfinance.kind = "history"}

CotUpstreams ==
    {e \in CotEnvs : /\ Len(e.pycot.rows) <= 1
                     /\ e.api_year.silver.failed = 4
                     /\ e.api_prev_year.gold.failed = 4}

\* one family of upstreams varies while the others serve a fixed answer
Upstreams ==
    LET etf0 == CHOOSE e \in EtfUpstreams : Len(e.series["GLD"]) = 3 /\ e.series["SLV"] = <<>>
        fx0 == CHOOSE e \in FxUpstreams : e.akshare.ask # NULL
        cot0 == CHOOSE e \in CotUpstreams : e.pycot.kind = "raises"
    IN  {[etf |-> e, fx |-> fx0, cot |-> cot0, weekday |-> 4] :
            e \in EtfUpstreams}
        \cup {[etf |-> etf0, fx |-> e, cot |-> cot0, weekday |-> 4] :
                e \in FxUpstreams}
        \cup {[etf |-> etf0, fx |-> fx0, cot |-> e, weekday |-> wd] :
                e \in CotUpstreams, wd \in {3, 4}}

NoRun == [fetcher |-> "none", repeat |-> FALSE, changed |-> FALSE, raised |-> FALSE,
          wrote |-> FALSE, count |-> 0, inserted |-> FALSE, calls |-> <<>>]

IdleRuns ==
    /\ upstream = [etf |-> <<>>, fx |-> <<>>, cot |-> <<>>, weekday |-> 0]
    /\ lastRun = NoRun

\* what is kept of a run of fetcher f that took a table from rows to res.rows
Ran(f, rows, res) ==
    [fetcher |-> f, repeat |-> lastRun.fetcher = f, changed |-> res.rows # rows,
     raised |-> res.raised, wrote |-> res.rows # <<>>, count |-> res.count,
     inserted |-> res.inserted, calls |-> res.calls]

\* ETFFetcher(db).update_daily() runs
EtfUpdateDaily ==
    LET t == "etf_holdings_daily"
        res == etf_update_daily(tables[t], upstream.etf)
    IN  /\ tables' = [tables EXCEPT ![t] = res.rows]
        /\ lastRun' = Ran("etf", tables[t], res)
        /\ UNCHANGED <<lastCall, lastWritten, upstream, gapVars, chainVars, shfeVars, pipeVars, execVars>>

\* FXFetcher(db).update_daily() runs
FxUpdateDaily ==
    LET t == "fx_rates_daily"
        res == fx_update_daily(tables[t], upstream.fx)
    IN  /\ tables' = [tables EXCEPT ![t] = res.rows]
        /\ lastRun' = Ran("fx", tables[t], res)
        /\ UNCHANGED <<lastCall, lastWritten, upstream, gapVars, chainVars, shfeVars, pipeVars, execVars>>

\* CFTCFetcher(db).update_if_report_day() runs
CftcUpdateIfReportDay ==
    LET t == "cftc_positions_weekly"
        res == update_if_report_day(tables[t], upstream.cot, upstream.weekday)
    IN  /\ tables' = [tables EXCEPT ![t] = res.rows]
        /\ lastRun' = Ran("cftc", tables[t], res)
        /\ UNCHANGED <<lastCall, lastWritten, upstream, gapVars, chainVars, shfeVars, pipeVars, execVars>>

(***************************************************************************)
(* InventoryFetcher.fetch_comex, inventory_fetcher.py: the CME warehouse   *)
(* stocks sheet.  A sheet is a sequence of rows; the first cell of a row   *)
(* is its text as a sequence of words (empty for NaN or blank), the other  *)
(* cells are numbers, NaN or text.  Ounces are integers, tons are counted  *)
(* in 1/10000 of a ton (round(x, 4)).                                       *)
(***************************************************************************)
\* OUNCE_TO_TON = 32150.7466, in 1/10000
OUNCE_TO_TON == 321507466

RECURSIVE muldiv(_, _, _)
\* a * b / m for 0 <= a < m, quotient and remainder, by halving b so that no
\* intermediate value leaves the machine integers
muldiv(a, b, m) ==
    IF b = 0 THEN [q |-> 0, r |-> 0]
    ELSE LET h == muldiv(a, b \div 2, m)
             c1 == IF 2 * h.r >= m THEN 1 ELSE 0
             r2 == 2 * h.r - c1 * m + (IF b % 2 = 1 THEN a ELSE 0)
             c2 == IF r2 >= m THEN 1 ELSE 0
         IN  [q |-> 2 * h.q + c1 + c2, r |-> r2 - c2 * m]

\* round(oz / OUNCE_TO_TON, 4)
to_ton(oz) ==
    LET d == muldiv(oz, 100000000, OUNCE_TO_TON)
    IN  d.q + (IF 2 * d.r > OUNCE_TO_TON THEN 1 ELSE 0)

NaN == [kind |-> "nan", v |-> 0]

Num(n) == [kind |-> "number", v |-> n]

Text == [kind |-> "text", v |-> 0]

\* str.upper() of a word
upper_word(w) ==
    CASE w = "Depository" -> "DEPOSITORY"
      [] w = "Registered" -> "REGISTERED"
      [] w = "Eligible" -> "ELIGIBLE"
      [] w = "Total" -> "TOTAL"
      [] w = "Report Date" -> "REPORT DATE"
      [] w = "Activity Date" -> "ACTIVITY DATE"
      [] OTHER -> w

upper(cell) == [i \in 1..Len(cell) |-> upper_word(cell[i])]

\* kw in cell
Contains(cell, kw) == \E i \in 1..Len(cell) : cell[i] = kw

\* the digits of a d{1,2}/d{1,2}/d{4} word; <<>> for any other word
DateDigits(w) ==
    CASE w = "2/6/2026" -> <<2, 6, 2026>>
      [] w = "2/5/2026" -> <<2, 5, 2026>>
      [] w = "2/30/2026" -> <<2, 30, 2026>>
      [] w = "13/6/2026" -> <<13, 6, 2026>>
      [] OTHER -> <<>>

DaysInMonth(m, y) ==
    IF m = 2 THEN (IF y % 4 = 0 /\ (y % 100 # 0 \/ y % 400 = 0) THEN 29 ELSE 28)
    ELSE IF m \in {4, 6, 9, 11} THEN 30 ELSE 31

\* re.search(marker + date) then strptime("%m/%d/%Y").strftime("%Y-%m-%d"):
\* NULL when the cell has no such marker or strptime raises ValueError
marked_date(cell, marker) ==
    LET hits == {i \in 1..(Len(cell) - 1) :
                    cell[i] = marker /\ DateDigits(cell[i + 1]) # <<>>}
    IN  IF hits = {} THEN NULL
        ELSE LET i == CHOOSE h \in hits : \A g \in hits : h <= g
                 mdy == DateDigits(cell[i + 1])
             IN  IF mdy[1] \in 1..12 /\ mdy[2] \in 1..DaysInMonth(mdy[1], mdy[3])
                 THEN Some(<<mdy[3], mdy[1], mdy[2]>>)
                 ELSE NULL

RECURSIVE report_date_rows(_, _, _)
\* for idx in range(min(10, len(df)))
report_date_rows(df, idx, today) ==
    IF idx > Len(df) \/ idx > 10 THEN [date |-> today, found |-> FALSE]
    ELSE LET r == marked_date(df[idx].c0, "Report Date")
             a == marked_date(df[idx].c0, "Activity Date")
         IN  IF r # NULL THEN [date |-> r[1], found |-> TRUE]
             ELSE IF a # NULL THEN [date |-> a[1], found |-> TRUE]
             ELSE report_date_rows(df, idx + 1, today)

_extract_report_date(df, today) == report_date_rows(df, 1, today)

\* the first row whose first cell holds DEPOSITORY or PREV; 0 for None
header_idx(df) ==
    LET hits == {i \in 1..Len(df) : \/ Contains(upper(df[i].c0), "DEPOSITORY")
                                    \/ Contains(upper(df[i].c0), "PREV")}
    IN  IF hits = {} THEN 0 ELSE CHOOSE h \in hits : \A g \in hits : h <= g

RECURSIVE last_number(_, _)
last_number(cells, i) ==
    IF i = 0 THEN NULL
    ELSE IF cells[i].kind = "number" THEN Some(cells[i].v)
    ELSE last_number(cells, i - 1)

\* _get_today_value: the last cell of row.iloc[1:] that to_numeric keeps
_get_today_value(row) == last_number(row.cells, Len(row.cells))

\* row.notna().sum(), for a row whose first cell is not empty
non_null_count(row) ==
    1 + Cardinality({i \in 1..Len(row.cells) : row.cells[i].kind # "nan"})

NAME_STOP_WORDS == {"REGISTERED", "ELIGIBLE", "PLEDGED", "TOTAL", "GRAND", "---"}

\* warehouse_data, a dict in insertion order: the index of a name, 0 if absent
wh_index(warehouse_data, name) ==
    LET hits == {i \in 1..Len(warehouse_data) : warehouse_data[i].name = name}
    IN  IF hits = {} THEN 0 ELSE CHOOSE i \in hits : TRUE

\* warehouse_data[name][cat] = val
wh_set(warehouse_data, name, cat, val) ==
    LET i == wh_index(warehouse_data, name)
        old == warehouse_data[i].data
    IN  [warehouse_data EXCEPT ![i].data =
            [c \in DOMAIN old \cup {cat} |-> IF c = cat THEN val ELSE old[c]]]

\* data.get(cat, default)
wh_get(data, cat, default) == IF cat \in DOMAIN data THEN data[cat] ELSE default

EmptyData == [c \in {} |-> 0]

RECURSIVE comex_rows(_, _, _, _)
\* for idx in range(header_idx + 1, len(df)), from row idx on
comex_rows(df, idx, current_warehouse, warehouse_data) ==
    IF idx > Len(df) THEN warehouse_data
    ELSE
    LET row == df[idx]
        cell0 == row.c0
        cell0_upper == upper(cell0)
        today_val == _get_today_value(row)
        attach == current_warehouse # NULL /\ today_val # NULL
        wd1 == IF attach /\ Contains(cell0_upper, "REGISTERED")
               THEN wh_set(warehouse_data, current_warehouse[1], "registered", today_val[1])
               ELSE IF attach /\ Contains(cell0_upper, "ELIGIBLE")
               THEN wh_set(warehouse_data, current_warehouse[1], "eligible", today_val[1])
               ELSE warehouse_data
        wd2 == IF attach /\ Contains(cell0_upper, "TOTAL")
               THEN wh_set(wd1, current_warehouse[1], "total", today_val[1])
               ELSE wd1
    IN  IF cell0 = <<>> THEN comex_rows(df, idx + 1, current_warehouse, warehouse_data)
        ELSE IF /\ non_null_count(row) <= 2
                /\ \A kw \in NAME_STOP_WORDS : ~ Contains(cell0_upper, kw)
        THEN comex_rows(df, idx + 1, Some(cell0),
                 IF wh_index(warehouse_data, cell0) = 0
                 THEN Append(warehouse_data, [name |-> cell0, data |-> EmptyData])
                 ELSE warehouse_data)
        ELSE IF Contains(cell0, "---") \/ cell0[1] = "="
        THEN comex_rows(df, idx + 1, current_warehouse, warehouse_data)
        ELSE IF Contains(cell0_upper, "GRAND") /\ Contains(cell0_upper, "TOTAL")
        THEN wd1
        ELSE comex_rows(df, idx + 1, current_warehouse, wd2)

comex_record(report_date, metal, category, warehouse, inventory, unit) ==
    [date |-> report_date, exchange |-> "COMEX", metal |-> metal,
     category |-> category, warehouse |-> warehouse, inventory |-> inventory,
     unit |-> unit, source |-> "cme_xls"]

\* the three records of one warehouse, none when it has no data or total <= 0
warehouse_records(wh, metal, report_date) ==
    LET registered == wh_get(wh.data, "registered", 0)
        eligible == wh_get(wh.data, "eligible", 0)
        total == wh_get(wh.data, "total", registered + eligible)
    IN  IF DOMAIN wh.data = {} \/ total <= 0 THEN <<>>
        ELSE <<comex_record(report_date, metal, "registered", wh.name, registered, "oz"),
               comex_record(report_date, metal, "eligible", wh.name, eligible, "oz"),
               comex_record(report_date, metal, "total", wh.name, to_ton(total), "ton")>>

RECURSIVE all_warehouse_records(_, _, _, _)
all_warehouse_records(warehouse_data, i, metal, report_date) ==
    IF i > Len(warehouse_data) THEN <<>>
    ELSE warehouse_records(warehouse_data[i], metal, report_date)
         \o all_warehouse_records(warehouse_data, i + 1, metal, report_date)

RECURSIVE sum_category(_, _, _)
\* sum(d.get(cat, 0) for d in warehouse_data.values() if d)
sum_category(warehouse_data, i, cat) ==
    IF i > Len(warehouse_data) THEN 0
    ELSE wh_get(warehouse_data[i].data, cat, 0) + sum_category(warehouse_data, i + 1, cat)

\* aggregate_records with the eligible ounces left out of the grand total
aggregate_records_registered_only(warehouse_data, metal, report_date) ==
    LET total_registered == sum_category(warehouse_data, 1, "registered")
        total_eligible == sum_category(warehouse_data, 1, "eligible")
        grand_total == total_registered
    IN  IF warehouse_data = <<>> THEN <<>>
        ELSE <<comex_record(report_date, metal, "registered", <<>>, total_registered, "oz"),
               comex_record(report_date, metal, "eligible", <<>>, total_eligible, "oz"),
               comex_record(report_date, metal, "total", <<>>, to_ton(grand_total), "ton")>>

\* the records with warehouse = ''
aggregate_records(warehouse_data, metal, report_date) ==
    LET total_registered == sum_category(warehouse_data, 1, "registered")
        total_eligible == sum_category(warehouse_data, 1, "eligible")
        grand_total == total_registered + total_eligible
    IN  IF warehouse_data = <<>> THEN <<>>
        ELSE <<comex_record(report_date, metal, "registered", <<>>, total_registered, "oz"),
               comex_record(report_date, metal, "eligible", <<>>, total_eligible, "oz"),
               comex_record(report_date, metal, "total", <<>>, to_ton(grand_total), "ton")>>

\* _parse_comex_xls that scans the sheet from its first row when it finds no
\* header
_parse_comex_xls_headerless(df, metal, report_date) ==
    LET h == header_idx(df)
        warehouse_data == comex_rows(df, h + 1, NULL, <<>>)
    IN  all_warehouse_records(warehouse_data, 1, metal, report_date)
        \o aggregate_records(warehouse_data, metal, report_date)

_parse_comex_xls(df, metal, report_date) ==
    LET h == header_idx(df)
        warehouse_data == comex_rows(df, h + 1, NULL, <<>>)
    IN  IF h = 0 THEN <<>>
        ELSE all_warehouse_records(warehouse_data, 1, metal, report_date)
             \o aggregate_records(warehouse_data, metal, report_date)

\* fetch_comex: any exception of the download or of read_excel is logged and
\* the empty list returned
fetch_comex(env) ==
    LET report_date == _extract_report_date(env.sheet, env.today)
        records == _parse_comex_xls(env.sheet, env.metal, report_date.date)
    IN  IF env.kind = "raises"
        THEN Return(<<Call("cme_xls", <<>>, TRUE)>>, <<>>)
        ELSE Return(<<Call("cme_xls", records, FALSE)>>, records)

(***************************************************************************)
(* The sheets fetch_comex may download.                                    *)
(***************************************************************************)
MaxBlocks == 2

MaxSheetRows == 2

RunDate == <<2026, 2, 9>>

Row(c0, cells) == [c0 |-> c0, cells |-> cells]

\* a warehouse name alone on its row
NameRow(name) == Row(<<name>>, <<NaN, NaN, NaN>>)

\* a category row: PREV TOTAL ... TOTAL TODAY, or cells that are not numbers
CatRow(words, v, garbled) ==
    Row(words, IF garbled THEN <<Text, NaN, NaN>> ELSE <<Num(7), NaN, Num(v)>>)

DateRow(marker, literal) == Row(<<marker, literal>>, <<NaN, NaN, NaN>>)

BlankRow == Row(<<>>, <<NaN, NaN, NaN>>)

HeaderRows ==
    {Row(<<"DEPOSITORY">>, <<Text, Text, Text>>),
     Row(<<"Depository">>, <<Text, Text, Text>>),
     Row(<<"PREV", "TOTAL">>, <<Text, Text, Text>>)}

GrandTotalRow == CatRow(<<"GRAND", "TOTAL">>, 999, FALSE)

\* a warehouse block as the sheet's author meant it: the name, the values of
\* its Registered, Eligible and Total rows (NULL: no such row), and whether
\* the Registered row carries text instead of numbers
Block(name, registered, eligible, total, garbled) ==
    [name |-> name, registered |-> registered, eligible |-> eligible,
     total |-> total, garbled |-> garbled]

Blocks ==
    {Block("WH1", Some(100000), Some(50000), NULL, FALSE),
     Block("WH2", Some(20000), Some(80000), NULL, FALSE),
     Block("WH2", Some(0), Some(0), NULL, FALSE),
     Block("WH1", Some(100000), Some(50000), Some(160000), FALSE),
     Block("WH3", Some(20000), NULL, NULL, FALSE),
     Block("WH3", Some(20000), Some(0), NULL, FALSE),
     Block("WH1", Some(20000), Some(80000), NULL, FALSE),
     Block("WH3", Some(20000), Some(80000), NULL, TRUE)}

BlockRows(b) ==
    <<NameRow(b.name)>>
    \o (IF b.registered = NULL THEN <<>>
        ELSE <<CatRow(<<"Registered">>, b.registered[1], b.garbled)>>)
    \o (IF b.eligible = NULL THEN <<>>
        ELSE <<CatRow(<<"Eligible">>, b.eligible[1], FALSE)>>)
    \o (IF b.total = NULL THEN <<>>
        ELSE <<CatRow(<<"Total">>, b.total[1], FALSE)>>)

RECURSIVE BlocksRows(_, _)
BlocksRows(blocks, i) ==
    IF i > Len(blocks) THEN <<>> ELSE BlockRows(blocks[i]) \o BlocksRows(blocks, i + 1)

BlockSeqs == UNION {[1..n -> Blocks] : n \in 0..MaxBlocks}

Fixture ==
    <<Block("WH1", Some(100000), Some(50000), NULL, FALSE),
      Block("WH2", Some(20000), Some(80000), NULL, FALSE)>>

\* what precedes the header: titles, the report date in its variants, and a
\* date that comes after the tenth row
Preambles ==
    {<<>>,
     <<Row(<<"COMEX", "GOLD">>, <<NaN, NaN, NaN>>), BlankRow,
       DateRow("Report Date", "2/6/2026"), BlankRow>>,
     <<DateRow("Activity Date", "2/5/2026")>>,
     <<DateRow("Report Date", "2/30/2026")>>,
     <<DateRow("Report Date", "13/6/2026"), DateRow("Activity Date", "2/5/2026")>>,
     <<DateRow("REPORT DATE", "2/6/2026")>>,
     [i \in 1..11 |-> IF i = 11 THEN DateRow("Report Date", "2/6/2026") ELSE BlankRow]}

\* what follows the blocks
Trailers ==
    {<<>>,
     <<GrandTotalRow, NameRow("WH3"), CatRow(<<"Registered">>, 5, FALSE)>>,
     <<CatRow(<<"TOTAL", "REGISTERED">>, 120000, FALSE)>>}

\* rows of a sheet without header marker
PlainRows ==
    {BlankRow, NameRow("WH1"), CatRow(<<"Registered">>, 100000, FALSE),
     CatRow(<<"Total">>, 150000, FALSE), GrandTotalRow,
     Row(<<"---">>, <<NaN, NaN, NaN>>), Row(<<"=">>, <<>>),
     DateRow("Report Date", "2/6/2026")}

ComexSheet(preamble, header, blocks, trailer) ==
    [kind |-> "sheet", metal |-> "gold", today |-> RunDate,
     sheet |-> preamble \o header \o BlocksRows(blocks, 1) \o trailer,
     preamble |-> preamble, header |-> header, blocks |-> blocks, trailer |-> trailer]

ComexEnvs ==
    {[ComexSheet(<<>>, <<>>, <<>>, <<>>) EXCEPT !.kind = "raises"],
     [ComexSheet(<<>>, <<CHOOSE h \in HeaderRows : TRUE>>, Fixture, <<>>)
        EXCEPT !.metal = "silver"]}
    \cup {ComexSheet(p, <<h>>, Fixture, <<>>) : p \in Preambles, h \in HeaderRows}
    \cup {ComexSheet(<<>>, <<h>>, b, t) :
            h \in {Row(<<"DEPOSITORY">>, <<Text, Text, Text>>)},
            b \in BlockSeqs, t \in Trailers}
    \cup {ComexSheet(p, <<>>, <<>>, <<>>) :
            p \in UNION {[1..n -> PlainRows] : n \in 0..MaxSheetRows}}
    \cup {ComexSheet(<<>>, <<>>, b, <<>>) : b \in {<<x>> : x \in Blocks}}

\* InventoryFetcher.fetch_comex(metal) is called
FetchComex ==
    /\ chainIn.fn = "fetch_comex"
    /\ chainOut = NotCalled
    /\ chainOut' = Done(fetch_comex(chainIn.env))
    /\ UNCHANGED <<chainIn, storeVars, gapVars, shfeVars, runVars, pipeVars, execVars>>

(***************************************************************************)
(* InventoryFetcher.fetch_sge_pdf and _parse_sge_pdf, inventory_fetcher.py *)
(* A document is a sequence of pages, a page a sequence of tables, a table *)
(* a sequence of rows, a row a sequence of cells.  Of a cell the parser    *)
(* only reads whether it is empty, which keywords its text holds and the   *)
(* first token [0-9.]+ of the text.  Volumes are in 1/100 kg, tons in      *)
(* 1/10000 t.                                                              *)
(***************************************************************************)
\* a cell: None or '' when empty; kw is the keyword its text holds
\* ("delivery", "gold", "silver" or "none"); token is "none" when the text has
\* no [0-9.]+ token, "number" when float() accepts the first one (v its
\* value) and "bad" when float() raises ValueError on it ('1.2.3', '.')
SgeCell(empty, kw, token, v) == [empty |-> empty, kw |-> kw, token |-> token, v |-> v]

\* "AU" in row_text or "金" in row_text, over the cells that are not empty
row_has(row, kw) == \E i \in 1..Len(row) : ~ row[i].empty /\ row[i].kw = kw

\* the first cell with a delivery keyword, 0-based; -1 when there is none
delivery_col(row) ==
    LET hits == {i \in 1..Len(row) : ~ row[i].empty /\ row[i].kw = "delivery"}
    IN  IF hits = {} THEN -1 ELSE (CHOOSE h \in hits : \A g \in hits : h <= g) - 1

RECURSIVE last_token(_, _)
\* nums[-1] of the fallback: the last cell, not empty, whose first token
\* float() accepts (ValueError is passed over there)
last_token(row, i) ==
    IF i = 0 THEN NULL
    ELSE IF ~ row[i].empty /\ row[i].token = "number" THEN Some(row[i].v)
    ELSE last_token(row, i - 1)

\* target_val of a data row; tolerant: a token float() refuses in the
\* delivery column counts as no value instead of raising
target_val(row, delivery_col_idx, tolerant) ==
    IF delivery_col_idx # -1 /\ delivery_col_idx < Len(row)
    THEN LET cell == row[delivery_col_idx + 1]
         IN  IF cell.empty \/ cell.token = "none" THEN [raised |-> FALSE, v |-> 0]
             ELSE IF cell.token = "bad" THEN [raised |-> ~ tolerant, v |-> 0]
             ELSE [raised |-> FALSE, v |-> cell.v]
    ELSE LET n == last_token(row, Len(row))
         IN  [raised |-> FALSE, v |-> IF n = NULL THEN 0 ELSE n[1]]

\* one row of a table: the column index, the volumes and whether float() raised
sge_row(row, acc, tolerant) ==
    LET idx == IF row_has(row, "delivery") THEN delivery_col(row)
               ELSE acc.delivery_col_idx
        is_gold == row_has(row, "gold")
        is_silver == row_has(row, "silver")
        t == target_val(row, idx, tolerant)
    IN  IF row = <<>> THEN acc
        ELSE IF ~ (is_gold \/ is_silver) THEN [acc EXCEPT !.delivery_col_idx = idx]
        ELSE IF t.raised THEN [acc EXCEPT !.delivery_col_idx = idx, !.raised = TRUE]
        ELSE IF t.v <= 0 THEN [acc EXCEPT !.delivery_col_idx = idx]
        ELSE IF is_gold
        THEN [acc EXCEPT !.delivery_col_idx = idx, !.gold_vol = @ + t.v]
        ELSE [acc EXCEPT !.delivery_col_idx = idx, !.silver_vol = @ + t.v]

RECURSIVE sge_rows(_, _, _, _)
\* for row_idx, row in enumerate(table), from row i on
sge_rows(table, i, acc, tolerant) ==
    IF i > Len(table) \/ acc.raised THEN acc
    ELSE sge_rows(table, i + 1, sge_row(table[i], acc, tolerant), tolerant)

RECURSIVE sge_tables(_, _, _, _)
\* for table in tables: delivery_col_idx = -1, then its rows
sge_tables(tables_, i, acc, tolerant) ==
    IF i > Len(tables_) \/ acc.raised THEN acc
    ELSE sge_tables(tables_, i + 1,
            sge_rows(tables_[i], 1, [acc EXCEPT !.delivery_col_idx = -1], tolerant),
            tolerant)

RECURSIVE sge_pages(_, _, _, _)
\* for page in pdf.pages
sge_pages(pages, i, acc, tolerant) ==
    IF i > Len(pages) \/ acc.raised THEN acc
    ELSE sge_pages(pages, i + 1, sge_tables(pages[i], 1, acc, tolerant), tolerant)

\* gold_vol = 0.0, silver_vol = 0.0, then the loops
sge_volumes(pages, tolerant) ==
    sge_pages(pages, 1,
              [delivery_col_idx |-> -1, gold_vol |-> 0, silver_vol |-> 0,
               raised |-> FALSE],
              tolerant)

\* round(vol / 1000, 4), ties to even
kg_to_ton(vol) ==
    LET q == vol \div 10
        r == vol % 10
    IN  IF r > 5 \/ (r = 5 /\ q % 2 = 1) THEN q + 1 ELSE q

sge_record(date_str, metal, vol) ==
    [date |-> date_str, exchange |-> "SGE", metal |-> metal,
     category |-> "delivery_volume", warehouse |-> "SGE Main",
     inventory |-> kg_to_ton(vol), unit |-> "ton", source |-> "sge_pdf"]

\* _parse_sge_pdf: an exception anywhere in the try is logged and the
\* records, still empty while the loops run, are returned
_parse_sge_pdf(pdf, date_str) ==
    LET acc == sge_volumes(pdf.pages, FALSE)
    IN  IF pdf.kind = "unreadable" \/ acc.raised THEN <<>>
        ELSE (IF acc.gold_vol > 0 THEN <<sge_record(date_str, "gold", acc.gold_vol)>>
              ELSE <<>>)
             \o (IF acc.silver_vol > 0
                 THEN <<sge_record(date_str, "silver", acc.silver_vol)>>
                 ELSE <<>>)

\* the first article whose title names a delivery report or the daily quotes
target_article(articles) ==
    LET hits == {i \in 1..Len(articles) : articles[i].title_matches}
    IN  IF hits = {} THEN NULL
        ELSE Some(articles[CHOOSE h \in hits : \A g \in hits : h <= g])

\* fetch_sge_pdf: the article list, then the PDF of the first matching article
fetch_sge_pdf(env) ==
    LET api == Call("sge_api", <<>>, env.api.kind = "raises")
        article == target_article(env.api.articles)
        records == _parse_sge_pdf(env.pdf, article[1].publishDate)
    IN  IF env.api.kind = "raises" \/ env.api.status # 200 \/ env.api.kind = "not_json"
        THEN Return(<<api>>, <<>>)
        ELSE IF article = NULL THEN Return(<<api>>, <<>>)
        ELSE IF article[1].fileUrl = NULL THEN Return(<<api>>, <<>>)
        ELSE IF env.pdf.kind = "raises"
        THEN Return(<<api, Call("sge_pdf", <<>>, TRUE)>>, <<>>)
        ELSE IF env.pdf.status # 200
        THEN Return(<<api, Call("sge_pdf", <<>>, FALSE)>>, <<>>)
        ELSE Return(<<api, Call("sge_pdf", records, FALSE)>>, records)

(***************************************************************************)
(* The documents fetch_sge_pdf may download.                               *)
(***************************************************************************)
MaxTableRows == 2

Empty == SgeCell(TRUE, "none", "none", 0)

Label == SgeCell(FALSE, "none", "none", 0)

DeliveryHead == SgeCell(FALSE, "delivery", "none", 0)

\* 'Au99.99': the name itself holds a token
GoldName == SgeCell(FALSE, "gold", "number", 9999)

SilverName == SgeCell(FALSE, "silver", "none", 0)

Number(v) == SgeCell(FALSE, "none", "number", v)

BadNumber == SgeCell(FALSE, "none", "bad", 0)

SgeHeader == <<Label, Label, DeliveryHead>>

SgeRows ==
    {<<GoldName, Number(500), Number(123450)>>,
     <<GoldName, Number(500), Number(4)>>,
     <<GoldName, Number(500), Number(0)>>,
     <<GoldName, Number(500)>>,
     <<GoldName, Empty, Empty>>,
     <<SilverName, Number(7), Number(600000)>>,
     <<SilverName, Number(7), BadNumber>>,
     <<GoldName, SilverName, Number(300)>>,
     <<Label, Number(1), Number(2)>>,
     <<>>}

SgeTables ==
    {h \o r : h \in {<<>>, <<SgeHeader>>},
              r \in UNION {[1..n -> SgeRows] : n \in 0..MaxTableRows}}

SgeTablePairs ==
    {<<t1, t2>> : t1, t2 \in {<<SgeHeader, <<GoldName, Number(500), Number(123450)>>>>,
                              <<<<GoldName, Number(500), Number(123450)>>>>,
                              <<<<SilverName, Number(7), Number(600000)>>>>,
                              <<SgeHeader, <<SilverName, Number(7), BadNumber>>>>}}

\* one page with one table; two tables on one page; two pages
SgePages ==
    {<<<<t>>>> : t \in SgeTables}
    \cup {<<p>> : p \in SgeTablePairs}
    \cup {<<<<p[1]>>, <<p[2]>>>> : p \in SgeTablePairs}

Article(title_matches, fileUrl) ==
    [title_matches |-> title_matches, fileUrl |-> fileUrl, publishDate |-> "2026-02-06"]

SgeApi(kind, status, articles) == [kind |-> kind, status |-> status, articles |-> articles]

SgePdf(kind, status, pages) == [kind |-> kind, status |-> status, pages |-> pages]

GoodApi == SgeApi("json", 200, <<Article(FALSE, Some("/a.pdf")), Article(TRUE, Some("/b.pdf"))>>)

SgeEnvs ==
    {[api |-> a, pdf |-> SgePdf("pdf", 200, <<>>)] :
        a \in {SgeApi("raises", 0, <<>>), SgeApi("json", 403, <<>>),
               SgeApi("not_json", 200, <<>>), SgeApi("json", 200, <<>>),
               SgeApi("json", 200, <<Article(FALSE, Some("/a.pdf"))>>),
               SgeApi("json", 200, <<Article(TRUE, NULL)>>)}}
    \cup {[api |-> GoodApi, pdf |-> p] :
            p \in {SgePdf("raises", 0, <<>>), SgePdf("pdf", 404, <<>>),
                   SgePdf("unreadable", 200, <<>>)}}
    \cup {[api |-> GoodApi, pdf |-> SgePdf("pdf", 200, pages)] : pages \in SgePages}

\* InventoryFetcher.fetch_sge_pdf() is called
FetchSgePdf ==
    /\ chainIn.fn = "fetch_sge_pdf"
    /\ chainOut = NotCalled
    /\ chainOut' = Done(fetch_sge_pdf(chainIn.env))
    /\ UNCHANGED <<chainIn, storeVars, gapVars, shfeVars, runVars, pipeVars, execVars>>

(***************************************************************************)
(* InventoryFetcher.fetch_lbma and update_daily, inventory_fetcher.py: the *)
(* inventory stage of the daily run.  Events are the requests, the sleeps  *)
(* and the mails of the stage, in order.                                   *)
(***************************************************************************)
\* round(koz * 1000 / OUNCE_TO_TON, 2), in 1/100 of a ton
koz_to_ton(koz) ==
    LET d == muldiv(koz, 1000000000, OUNCE_TO_TON)
    IN  d.q + (IF 2 * d.r > OUNCE_TO_TON THEN 1 ELSE 0)

vault_record(month_end, metal, koz) ==
    [date |-> month_end, exchange |-> "LBMA", metal |-> metal,
     category |-> "vault_total", warehouse |-> "London Vaults",
     inventory |-> koz_to_ton(koz), unit |-> "ton", source |-> "lbma_xlsx"]

RECURSIVE vault_rows(_, _, _)
\* for idx in range(2, len(df)), from row i on: rows whose first cell is no
\* YYYY-MM month are skipped, a record is built per metal with a positive figure
vault_rows(df, i, records) ==
    IF i > Len(df) THEN records
    ELSE IF ~ df[i].is_month THEN vault_rows(df, i + 1, records)
    ELSE vault_rows(df, i + 1,
            records
            \o (IF df[i].gold_koz # NULL /\ df[i].gold_koz[1] > 0
                THEN <<vault_record(df[i].month_end, "gold", df[i].gold_koz[1])>>
                ELSE <<>>)
            \o (IF df[i].silver_koz # NULL /\ df[i].silver_koz[1] > 0
                THEN <<vault_record(df[i].month_end, "silver", df[i].silver_koz[1])>>
                ELSE <<>>))

\* fetch_lbma: whatever fails in the download is logged and no record is
\* returned; a 404 means the month is not published; at most 4 records
fetch_lbma(env) ==
    LET records == vault_rows(env.rows, 3, <<>>)
    IN  IF env.kind = "raises" \/ env.status # 200 THEN <<>>
        ELSE IF Len(records) > 4 THEN SubSeq(records, 1, 4)
        ELSE records

\* the values of a record as insert_batch binds them; a date or a warehouse
\* is kept with its exchange, each source writing them in its own notation
bound(rec) ==
    [c \in DOMAIN rec |->
        IF c \in {"date", "warehouse"} THEN Some(<<rec.exchange, rec[c]>>)
        ELSE Some(rec[c])]

\* the same for the records of fetch_shfe
bound_shfe(rec) ==
    [rec EXCEPT !.date = Some(<<"SHFE", rec.date[1]>>),
                !.warehouse = Some(<<"SHFE", rec.warehouse[1]>>)]

Event(event, source) == [event |-> event, source |-> source]

\* the requests and sleeps of a fetch_shfe call, and the alert mail after them
shfe_events(run) ==
    [k \in 1..Len(run.trace) |-> Event(run.trace[k].event, "shfe")]
    \o (IF run.alert THEN <<Event("send_email", "fetch_shfe")>> ELSE <<>>)

\* the records of the sources in the order of update_daily, as bound
all_records(comex, warrants, lbma, sge) ==
    [k \in 1..Len(comex) |-> bound(comex[k])]
    \o [k \in 1..Len(warrants) |-> bound_shfe(warrants[k])]
    \o [k \in 1..Len(lbma) |-> bound(lbma[k])]
    \o [k \in 1..Len(sge) |-> bound(sge[k])]

\* the stage from what its fetches returned
inventory_written(rows, shfe_run, records) ==
    CHOOSE out \in
        {[rows |-> res.rows, raised |-> res.raised, count |-> res.count,
          inserted |-> res.inserted, records |-> records,
          events |-> <<Event("request", "comex"), Event("sleep", "comex"),
                       Event("request", "comex"), Event("sleep", "comex")>>
                     \o shfe_events(shfe_run)
                     \o <<Event("request", "lbma"), Event("request", "sge")>>] :
            res \in {update(rows, "inventory_daily", <<>>, records)}} : TRUE

\* InventoryFetcher.update_daily: COMEX gold and silver with a sleep after
\* each, SHFE, LBMA, SGE, then one insert_batch of all the records
inventory_update_daily(rows, env) ==
    CHOOSE out \in
        {inventory_written(rows, shfe_run,
                           all_records(gold \o silver, shfe_run.records, lbma, sge)) :
            gold \in {fetch_comex(env.comex.gold).records},
            silver \in {fetch_comex(env.comex.silver).records},
            shfe_run \in {fetch_shfe(env.shfe, env.target)},
            lbma \in {fetch_lbma(env.lbma)},
            sge \in {fetch_sge_pdf(env.sge).records}} : TRUE

(***************************************************************************)
(* run_daily_pipeline, run_daily.py.  The fetch stages, the calculators,   *)
(* the report and the final mail each run in a try block of their own;     *)
(* DatabaseManager() and the two freshness queries do not.  The price      *)
(* stage, the calculators and the report are taken by their outcome only.  *)
(***************************************************************************)
FetchStages == <<"inventory", "cftc", "fx", "price", "etf">>

Calculators == <<"InventoryCalculator", "PriceCalculator", "FundingCalculator">>

\* PriceFetcher(db).update_daily() by its outcome
price_update_daily(outcome) ==
    [raised |-> outcome = "raises", inserted |-> outcome = "records", events |-> <<>>]

\* a stage is taken when the run is still alive; alive after it unless it
\* raised outside a try block
After(alive, guarded, raised) == alive /\ (guarded \/ ~ raised)

\* the run from what its fetch stages do; with every try block taken away
\* when guarded is FALSE
stages(tbls, env, guarded, inv, cftc, fx, price, etf) ==
    LET a0 == After(TRUE, FALSE, env.store = "unopenable")
        a1 == After(a0, guarded, inv.raised)
        skip_cftc == env.PM_SKIP_CFTC = "1"
        a2 == After(a1, guarded, ~ skip_cftc /\ cftc.raised)
        a3 == After(a2, guarded, fx.raised)
        a4 == After(a3, guarded, price.raised)
        a5 == After(a4, guarded, etf.raised)
        c1 == After(a5, guarded, Calculators[1] \in env.failing)
        c2 == After(c1, guarded, Calculators[2] \in env.failing)
        c3 == After(c2, guarded, Calculators[3] \in env.failing)
        a6 == After(c3, guarded, env.report = "raises")
        html_report == a6 /\ env.report = "html"
        a7 == After(a6, FALSE, env.store = "unreadable")
        send == a7 /\ ~ env.dry_run /\ html_report
        a8 == After(a7, guarded, send /\ env.smtp = "raises")
        ran(alive, name) == IF alive THEN <<name>> ELSE <<>>
        wrote(alive, res, name) ==
            IF alive /\ res.inserted /\ ~ res.raised THEN {name} ELSE {}
        rows(alive, res, t) == IF alive THEN res.rows ELSE tbls[t]
    IN  [returned |-> IF a8 THEN "True" ELSE "raised",
         stages |-> ran(a0, "inventory") \o ran(a1 /\ ~ skip_cftc, "cftc")
                    \o ran(a2, "fx") \o ran(a3, "price") \o ran(a4, "etf")
                    \o ran(a5, Calculators[1]) \o ran(c1, Calculators[2])
                    \o ran(c2, Calculators[3]) \o ran(c3, "report")
                    \o ran(a6, "freshness") \o ran(send, "email"),
         persisted |-> wrote(a0, inv, "inventory")
                       \cup wrote(a1 /\ ~ skip_cftc, cftc, "cftc")
                       \cup wrote(a2, fx, "fx") \cup wrote(a3, price, "price")
                       \cup wrote(a4, etf, "etf"),
         events |-> (IF a0 THEN inv.events ELSE <<>>)
                    \o (IF send THEN <<Event("send_email", "run_daily_pipeline")>>
                        ELSE <<>>),
         tables |-> [t \in TableNames |->
                       CASE t = "inventory_daily" -> rows(a0, inv, t)
                         [] t = "cftc_positions_weekly" ->
                              rows(a1 /\ ~ skip_cftc, cftc, t)
                         [] t = "fx_rates_daily" -> rows(a2, fx, t)
                         [] t = "etf_holdings_daily" -> rows(a4, etf, t)
                         [] OTHER -> tbls[t]]]

\* the stages on the store and the upstreams of the run
pipeline(tbls, env, guarded) ==
    CHOOSE run \in
        {stages(tbls, env, guarded, inv, cftc, fx, price, etf) :
            inv \in {inventory_update_daily(tbls["inventory_daily"], env.inventory)},
            cftc \in {update_if_report_day(tbls["cftc_positions_weekly"], env.cot,
                                           env.weekday)},
            fx \in {fx_update_daily(tbls["fx_rates_daily"], env.fx)},
            price \in {price_update_daily(env.price)},
            etf \in {etf_update_daily(tbls["etf_holdings_daily"], env.etf)}} : TRUE

\* the run in which an exception of a stage leaves the function
run_daily_pipeline_unguarded(tbls, env) == pipeline(tbls, env, FALSE)

\* run_daily_pipeline(target_date, dry_run)
run_daily_pipeline(tbls, env) == pipeline(tbls, env, TRUE)

(***************************************************************************)
(* The runs of the pipeline: what each stage meets.                        *)
(***************************************************************************)
LbmaSheet(kind, status, rows) == [kind |-> kind, status |-> status, rows |-> rows]

LbmaMonth(is_month, gold_koz, silver_koz) ==
    [is_month |-> is_month, month_end |-> "2026-01", gold_koz |-> gold_koz,
     silver_koz |-> silver_koz]

\* the vault sheets: two title rows, then months
LbmaSheets ==
    {LbmaSheet("raises", 0, <<>>), LbmaSheet("response", 404, <<>>),
     LbmaSheet("response", 200,
               <<LbmaMonth(TRUE, Some(9), Some(9)), LbmaMonth(FALSE, NULL, NULL),
                 LbmaMonth(TRUE, Some(280000), NULL),
                 LbmaMonth(FALSE, Some(5), Some(5)),
                 LbmaMonth(TRUE, Some(0), Some(850000))>>)}

\* lookbacks of the stage: records at the third day back, 404 on every day,
\* every request raising, and 404s that end before the last day
StageLookbacks ==
    {[k \in 1..LOOKBACK_DAYS |->
        IF k = 3 THEN ShfeBody("json", <<ShfeItem("AU", 900), ShfeItem("AG", 700)>>)
        ELSE ShfeStatus(404)],
     [k \in 1..LOOKBACK_DAYS |-> ShfeStatus(404)],
     [k \in 1..LOOKBACK_DAYS |-> ShfeRaises],
     [k \in 1..LOOKBACK_DAYS |-> IF k < LOOKBACK_DAYS THEN ShfeStatus(404) ELSE ShfeEmpty]}

\* what the inventory stage meets
InventoryEnvs ==
    LET sheet(metal) ==
            [ComexSheet(<<>>, <<Row(<<"DEPOSITORY">>, <<Text, Text, Text>>)>>, Fixture, <<>>)
                EXCEPT !.metal = metal]
        down(metal) == [sheet(metal) EXCEPT !.kind = "raises"]
        document == CHOOSE e \in SgeEnvs : fetch_sge_pdf(e).records # <<>>
        closed == CHOOSE e \in SgeEnvs : e.api.kind = "raises"
    IN  {[comex |-> [gold |-> c[1], silver |-> c[2]], shfe |-> s, target |-> 10,
          lbma |-> l, sge |-> g] :
            c \in {<<sheet("gold"), sheet("silver")>>, <<down("gold"), down("silver")>>,
                   <<sheet("gold"), down("silver")>>},
            s \in StageLookbacks, l \in LbmaSheets, g \in {document, closed}}

\* a stage env for each outcome of the stage: records, no data, raises
Outcome(res) ==
    IF res.raised THEN "raises" ELSE IF res.inserted THEN "records" ELSE "no_data"

Outcomes == {"records", "no_data", "raises"}

InventoryCases ==
    {CHOOSE e \in InventoryEnvs :
        /\ Outcome(inventory_update_daily(<<>>, e)) = o
        /\ e.shfe # [k \in 1..LOOKBACK_DAYS |-> ShfeStatus(404)] : o \in Outcomes}
    \cup {CHOOSE e \in InventoryEnvs :
            /\ Outcome(inventory_update_daily(<<>>, e)) = "no_data"
            /\ e.shfe = [k \in 1..LOOKBACK_DAYS |-> ShfeStatus(404)]}

FxCases ==
    {CHOOSE e \in FxEnvs : Outcome(fx_update_daily(<<>>, e)) = o : o \in Outcomes}

EtfCases ==
    {CHOOSE e \in EtfUpstreams : Outcome(etf_update_daily(<<>>, e)) = o :
        o \in {"records", "no_data"}}

CotCases ==
    {CHOOSE e \in CotUpstreams : Outcome(update_if_report_day(<<>>, e, 4)) = o :
        o \in {"records", "no_data"}}

PipelineEnv(dry_run, store, inventory, skip, weekday, cot, fx, price, etf, failing,
            report, smtp) ==
    [dry_run |-> dry_run, store |-> store, inventory |-> inventory,
     PM_SKIP_CFTC |-> skip, weekday |-> weekday, cot |-> cot, fx |-> fx,
     price |-> price, etf |-> etf, failing |-> failing, report |-> report,
     smtp |-> smtp]

\* every combination of the outcomes of the fetch stages; every inventory
\* env; every failure of what follows the fetch stages
PipelineEnvs ==
    LET inv0 == CHOOSE e \in InventoryCases : Outcome(inventory_update_daily(<<>>, e)) = "records"
        cot0 == CHOOSE e \in CotCases : Outcome(update_if_report_day(<<>>, e, 4)) = "records"
        fx0 == CHOOSE e \in FxCases : Outcome(fx_update_daily(<<>>, e)) = "records"
        etf0 == CHOOSE e \in EtfCases : Outcome(etf_update_daily(<<>>, e)) = "records"
    IN  {PipelineEnv(d, "ok", i, "0", wd, c, f, p, e, {}, "html", "ok") :
            d \in BOOLEAN, i \in InventoryCases, wd \in {3, 4}, c \in CotCases,
            f \in FxCases, p \in Outcomes, e \in EtfCases}
        \cup {PipelineEnv(d, "ok", i, "1", 4, cot0, fx0, "records", etf0, {}, r, "ok") :
                d \in BOOLEAN, i \in InventoryEnvs, r \in {"html", "empty", "raises"}}
        \cup {PipelineEnv(d, s, inv0, "0", 4, cot0, fx0, "records", etf0, c, r, m) :
                d \in BOOLEAN, s \in {"ok", "unopenable", "unreadable"},
                c \in SUBSET {Calculators[k] : k \in 1..3},
                r \in {"html", "raises"}, m \in {"ok", "raises"}}

NotStarted == [called |-> FALSE, returned |-> "none", stages |-> <<>>,
               persisted |-> {}, events |-> <<>>]

IdlePipeline ==
    /\ pipeIn = <<>>
    /\ pipeOut = NotStarted

\* run_daily_pipeline(dry_run=...) is called on the store
RunDailyPipeline ==
    \E res \in {run_daily_pipeline(tables, pipeIn)} :
        /\ pipeOut = NotStarted
        /\ pipeOut' = [called |-> TRUE, returned |-> res.returned, stages |-> res.stages,
                       persisted |-> res.persisted, events |-> res.events]
        /\ tables' = res.tables
        /\ UNCHANGED <<pipeIn, lastCall, lastWritten, gapVars, chainVars, shfeVars,
                       runVars, execVars>>


(***************************************************************************)
(* The retrying provider calls, step by step: fetch_etf (etf_fetcher.py),  *)
(* FXFetcher._fetch_via_yfinance (fx_fetcher.py), CFTCFetcher._fetch_via_api *)
(* (cftc_fetcher.py), and fetch_cme_futures (price_fetcher.py), which has  *)
(* a single attempt.  All but _fetch_via_api run the network call in       *)
(*     with ThreadPoolExecutor(max_workers=1) as executor:                 *)
(*         future = executor.submit(_fetch)                                *)
(*         df = future.result(timeout=15)                                  *)
(* Leaving the with block calls executor.shutdown(wait=True), which joins  *)
(* the worker thread.  Of the network call of an attempt the model keeps   *)
(* its outcome: data, an empty answer, an exception, an answer that comes  *)
(* after the 15 seconds, or no answer ever.                                *)
(***************************************************************************)
\* the functions that wrap the call in the executor
Wrapped == {"fetch_cme_futures", "fetch_etf", "_fetch_via_yfinance"}

\* range(max_retries); fetch_cme_futures has no loop
attempts(fn) == IF fn = "fetch_cme_futures" THEN 1 ELSE max_retries

backoff_factor == 2

\* a sleep of the same length before every retry
sleep_time_fixed(attempt) == backoff_factor

\* sleep_time = backoff_factor ** (attempt + 1)
sleep_time(attempt) == backoff_factor ^ (attempt + 1)

Step(event, arg) == [event |-> event, arg |-> arg]

\* the call of the attempt under way
outcome == executor.outcomes[executor.attempt + 1]

\* executor.submit(_fetch): the worker thread starts the network call and the
\* caller waits in future.result(timeout=15)
Submit ==
    /\ executor.pc = "try" /\ executor.fn \in Wrapped
    /\ executor' = [executor EXCEPT !.pc = "result", !.worker = "running",
                       !.trace = Append(@, Step("attempt", executor.attempt + 1))]
    /\ UNCHANGED <<storeVars, gapVars, chainVars, shfeVars, runVars, pipeVars>>

\* the network call ends in the worker: within the 15 seconds, or later when
\* the caller has stopped waiting for the result
WorkerEnds ==
    /\ executor.worker = "running"
    /\ \/ executor.pc = "result" /\ outcome \in {"data", "empty", "raises"}
       \/ executor.pc = "shutdown" /\ outcome = "late"
    /\ executor' = [executor EXCEPT !.worker = "ended"]
    /\ UNCHANGED <<storeVars, gapVars, chainVars, shfeVars, runVars, pipeVars>>

\* future.result(timeout=15) hands back what the call returned or raised
Result ==
    /\ executor.pc = "result" /\ executor.worker = "ended"
    /\ executor' = [executor EXCEPT
                       !.pc = "shutdown",
                       !.df = IF outcome = "raises" THEN @ ELSE outcome,
                       !.pending = IF outcome = "raises" THEN "Exception" ELSE "none"]
    /\ UNCHANGED <<storeVars, gapVars, chainVars, shfeVars, runVars, pipeVars>>

\* future.result(timeout=15) raises TimeoutError: the call is still running
Timeout ==
    /\ executor.pc = "result" /\ executor.worker = "running"
    /\ outcome \in {"late", "never"}
    /\ executor' = [executor EXCEPT !.pc = "shutdown", !.pending = "TimeoutError"]
    /\ UNCHANGED <<storeVars, gapVars, chainVars, shfeVars, runVars, pipeVars>>

\* the end of the with block: shutdown(wait=True) returns when the worker
\* thread has ended; then the break, or the except clause of the exception
Shutdown ==
    /\ executor.pc = "shutdown" /\ executor.worker = "ended"
    /\ executor' = [executor EXCEPT
                       !.pc = IF executor.pending = "none" THEN "break" ELSE "except",
                       !.worker = "idle"]
    /\ UNCHANGED <<storeVars, gapVars, chainVars, shfeVars, runVars, pipeVars>>

\* _fetch_via_api: self.session.get(url, timeout=15), raise_for_status and
\* resp.json() in the caller's thread
Get ==
    /\ executor.pc = "try" /\ executor.fn \notin Wrapped
    /\ executor' = [executor EXCEPT
                       !.pc = IF outcome = "raises" THEN "except" ELSE "break",
                       !.df = IF outcome = "raises" THEN @ ELSE outcome,
                       !.pending = IF outcome = "raises" THEN "Exception" ELSE "none",
                       !.trace = Append(@, Step("attempt", executor.attempt + 1))]
    /\ UNCHANGED <<storeVars, gapVars, chainVars, shfeVars, runVars, pipeVars>>

\* break: the loop ends after an attempt that returned
Break ==
    /\ executor.pc = "break"
    /\ executor' = [executor EXCEPT !.pc = "after_loop"]
    /\ UNCHANGED <<storeVars, gapVars, chainVars, shfeVars, runVars, pipeVars>>

\* the except clause logs; a sleep follows unless the attempt was the last,
\* then the next attempt or the end of the loop
Except ==
    /\ executor.pc = "except"
    /\ executor' =
          IF executor.attempt < attempts(executor.fn) - 1
          THEN [executor EXCEPT
                   !.pc = "try", !.pending = "none", !.attempt = @ + 1,
                   !.trace = Append(@, Step("sleep", sleep_time(executor.attempt)))]
          ELSE [executor EXCEPT !.pc = "after_loop", !.pending = "none"]
    /\ UNCHANGED <<storeVars, gapVars, chainVars, shfeVars, runVars, pipeVars>>

\* if df is None or df.empty: return records, which is empty; the rows of the
\* frame otherwise
ReturnRecords ==
    /\ executor.pc = "after_loop"
    /\ executor' = [executor EXCEPT
                       !.pc = "returned",
                       !.result = IF executor.df = "data" THEN "records" ELSE "empty"]
    /\ UNCHANGED <<storeVars, gapVars, chainVars, shfeVars, runVars, pipeVars>>

\* the outcomes of the network call at the attempts of a function
Outcomes_(fn) ==
    IF fn \in Wrapped THEN {"data", "empty", "raises", "late", "never"}
    ELSE {"data", "empty", "raises"}

\* fn before its first attempt, the network answering as outcomes say
Entered(fn, outcomes) ==
    [fn |-> fn, outcomes |-> outcomes, attempt |-> 0, pc |-> "try", worker |-> "idle",
     pending |-> "none", df |-> "None", trace |-> <<>>, result |-> "none"]

\* fetch_etf on every sequence of outcomes; the others on the sequences in
\* which the network answers the same at every attempt or recovers
RetryingCalls ==
    {Entered("fetch_etf", o) : o \in [1..max_retries -> Outcomes_("fetch_etf")]}
    \cup UNION {{Entered(fn, o) :
                    o \in {q \in [1..max_retries -> Outcomes_(fn)] :
                              \A k \in 2..max_retries : q[k] \in {q[1], "data"}}} :
                 fn \in {"_fetch_via_yfinance", "fetch_cme_futures", "_fetch_via_api"}}

IdleExecutor == executor = <<>>

(***************************************************************************)
(* One call of fetch_shfe, with its requests and what it returns.          *)
(***************************************************************************)
\* lookbacks with up to two special answers among 404s or raising requests
TwoSpecialLookbacks ==
    {[k \in 1..LOOKBACK_DAYS |-> IF k = p[1] THEN a ELSE IF k = p[2] THEN b ELSE rest] :
        p \in {q \in (1..LOOKBACK_DAYS) \X (1..LOOKBACK_DAYS) : q[1] < q[2]},
        a \in ShfeSpecial, b \in ShfeSpecial, rest \in {ShfeStatus(404), ShfeRaises}}

LookbackEnvs ==
    {[responses |-> r, target |-> 10] : r \in ShfeLookbacks \cup TwoSpecialLookbacks}

\* InventoryFetcher.fetch_shfe(date) is called once
FetchShfeLookback ==
    /\ chainIn.fn = "fetch_shfe"
    /\ chainOut = NotCalled
    /\ \E run \in {fetch_shfe(chainIn.env.responses, chainIn.env.target)} :
          chainOut' = [calls |-> run.trace, records |-> run.records, raised |-> FALSE,
                       done |-> TRUE, continuous_404_count |-> run.continuous_404_count,
                       exhausted |-> run.exhausted, alert |-> run.alert]
    /\ UNCHANGED <<chainIn, storeVars, gapVars, shfeVars, runVars, pipeVars, execVars>>

(***************************************************************************)
(* Sheets with a separator row among the rows of the warehouse blocks.     *)
(***************************************************************************)
\* a run of three '-' or more, a run of two, and a run of '=', alone on the
\* row or with text beside them
SeparatorRows ==
    {Row(<<c>>, cells) : c \in {"---", "--", "="},
                         cells \in {<<NaN, NaN, NaN>>, <<Text, Text, Text>>}}

\* seq with x put after its first n elements
InsertAt(seq, n, x) == SubSeq(seq, 1, n) \o <<x>> \o SubSeq(seq, n + 1, Len(seq))

SeparatorBlocks ==
    {Fixture,
     <<Block("WH1", Some(100000), Some(50000), Some(160000), FALSE)>>,
     <<Block("WH3", Some(20000), NULL, NULL, FALSE),
       Block("WH1", Some(20000), Some(80000), NULL, FALSE)>>,
     <<Block("WH2", Some(0), Some(0), NULL, FALSE),
       Block("WH1", Some(100000), Some(50000), NULL, FALSE)>>}

\* the sheet of the blocks with the separator after the first at rows of the
\* blocks; plain is the same sheet without the separator
SeparatorEnv(rows, s, at) ==
    [kind |-> "sheet", metal |-> "gold", today |-> RunDate,
     sheet |-> <<Row(<<"DEPOSITORY">>, <<Text, Text, Text>>)>> \o InsertAt(rows, at, s),
     plain |-> <<Row(<<"DEPOSITORY">>, <<Text, Text, Text>>)>> \o rows,
     separator |-> s, at |-> at]

SeparatorEnvs ==
    UNION {{SeparatorEnv(BlocksRows(b, 1), s, at) :
               s \in SeparatorRows, at \in 0..Len(BlocksRows(b, 1))} :
           b \in SeparatorBlocks}

(***************************************************************************)
(* PriceFetcher.fetch_sge_spot, price_fetcher.py: the SGE spot price from  *)
(* akshare, with the exchange's quotation page as fallback.                *)
(***************************************************************************)
\* a spot_prices_daily record of the SGE market; price is None for NaN
sge_spot_record(date, metal, price, source) ==
    [date |-> Some(date), market |-> Some("SGE"), metal |-> Some(metal),
     price |-> price, currency |-> Some("CNY"), source |-> Some(source)]

\* symbol / target_name: the product of a metal
sge_symbol(metal) == IF metal = "gold" THEN "Au99.99" ELSE "Ag(T+D)"

\* target_name in cells[1], a substring test, on the product names of the page
name_in(target_name, cell) ==
    cell = target_name \/ (target_name = "Au99.99" /\ cell = "iAu99.99")

RECURSIVE sge_page_rows(_, _, _)
\* for row in rows, from row i on: the first row of the product with 6 cells
\* or more and a closing price that float() parses gives the record
sge_page_rows(rows, i, metal) ==
    IF i > Len(rows) THEN <<>>
    ELSE IF rows[i].cells >= 6 /\ name_in(sge_symbol(metal), rows[i].name)
              /\ rows[i].price # NULL
         THEN <<sge_spot_record(rows[i].date, metal, rows[i].price, "scrapling_sge_ui")>>
    ELSE sge_page_rows(rows, i + 1, metal)

\* _fetch_sge_spot_scrapling: every failure is caught inside
_fetch_sge_spot_scrapling(resp, metal) ==
    IF resp.kind = "raises" THEN <<>>
    ELSE IF resp.status # 200 THEN <<>>
    ELSE sge_page_rows(resp.rows, 1, metal)

\* df.tail(1) unless full_history
sge_tail(rows, full_history) == IF full_history THEN rows ELSE Tail_n(rows, 1)

\* the records of the frame: close as float, NaN as None
sge_frame_records(rows, metal) ==
    [k \in 1..Len(rows) |->
        sge_spot_record(rows[k].date, metal,
                        IF rows[k].close.kind = "nan" THEN NULL
                        ELSE Some(rows[k].close.v), "akshare_sge")]

\* fetch_sge_spot(metal, full_history)
fetch_sge_spot(env, metal, full_history) ==
    LET ak == env.akshare[metal]
        df == sge_tail(ak.rows, full_history)
        results == sge_frame_records(df, metal)
        fallback == _fetch_sge_spot_scrapling(env.sge_web, metal)
        failed == <<Call("akshare_sge", <<>>, TRUE),
                    Call("scrapling_sge_ui", fallback, FALSE)>>
    IN  IF ak.kind = "raises" THEN Return(failed, fallback)
        ELSE IF ak.kind = "none" \/ ak.rows = <<>>                \* df.empty
        THEN Return(<<Call("akshare_sge", <<>>, FALSE)>>, <<>>)
        ELSE IF ~ ({"date", "close"} \subseteq ak.columns)        \* KeyError
        THEN Return(failed, fallback)
        ELSE IF \E k \in 1..Len(df) : df[k].close.kind = "text"   \* ValueError
        THEN Return(failed, fallback)
        ELSE IF results = <<>>
        THEN Return(<<Call("akshare_sge", <<>>, FALSE),
                      Call("scrapling_sge_ui", fallback, FALSE)>>, fallback)
        ELSE Return(<<Call("akshare_sge", results, FALSE)>>, results)

\* what ak.spot_hist_sge may answer: it raises, None, or a frame of up to two
\* days whose close is a number, NaN or text
SgeCloses == {Num(550), NaN, Text}

SgeFrames ==
    {[kind |-> "raises", columns |-> {}, rows |-> <<>>],
     [kind |-> "none", columns |-> {}, rows |-> <<>>]}
    \cup {[kind |-> "frame", columns |-> cols,
           rows |-> [k \in 1..Len(closes) |->
                        [date |-> IF k = Len(closes) THEN Today ELSE "2024-01-04",
                         close |-> closes[k]]]] :
            cols \in {{"date", "close"}, {"date", "open"}},
            closes \in UNION {[1..n -> SgeCloses] : n \in 0..2}}

\* what the quotation page may answer
SgeQuotationRows ==
    {[cells |-> c, name |-> n, date |-> Today, price |-> p] :
        c \in {5, 7}, n \in {"Au99.99", "iAu99.99", "Ag(T+D)"}, p \in {NULL, Some(560)}}

SgeQuotationPages ==
    {[kind |-> "raises", status |-> 0, rows |-> <<>>],
     [kind |-> "page", status |-> 403, rows |-> <<>>]}
    \cup {[kind |-> "page", status |-> 200, rows |-> rows] :
            rows \in UNION {[1..n -> SgeQuotationRows] : n \in 0..1}}
    \cup {[kind |-> "page", status |-> 200,
           rows |-> <<[cells |-> 7, name |-> a, date |-> Today, price |-> p],
                      [cells |-> 7, name |-> b, date |-> Today, price |-> Some(570)]>>] :
            a \in {"iAu99.99", "Ag(T+D)"}, b \in {"Au99.99", "Ag(T+D)"},
            p \in {NULL, Some(560)}}

SgeSpotEnvs ==
    {[akshare |-> [gold |-> f, silver |-> f], sge_web |-> w] :
        f \in SgeFrames, w \in SgeQuotationPages}

SgeSpotInputs ==
    {[fn |-> "fetch_sge_spot", env |-> e, metal |-> m, full_history |-> h] :
        e \in SgeSpotEnvs, m \in {"gold", "silver"}, h \in BOOLEAN}

\* price_fetcher.fetch_sge_spot(metal, full_history) is called
FetchSgeSpot ==
    /\ chainIn.fn = "fetch_sge_spot"
    /\ chainOut = NotCalled
    /\ chainOut' = Done(fetch_sge_spot(chainIn.env, chainIn.metal, chainIn.full_history))
    /\ UNCHANGED <<chainIn, storeVars, gapVars, shfeVars, runVars, pipeVars, execVars>>

(***************************************************************************)
(* The ETF runs of successive days: the upstream's volume series is fixed, *)
(* and each trading day adds its row to the history that yfinance serves.  *)
(***************************************************************************)
MaxDays == 7

\* the upstream as of day n of the series
AsOf(series, n) ==
    [etf |-> [PM_SKIP_YFINANCE |-> "0", failed |-> 0,
              series |-> [GLD |-> SubSeq(series, 1, n), SLV |-> <<>>]],
     fx |-> <<>>, cot |-> <<>>, weekday |-> 0]

WindowInputs ==
    {[fn |-> "history", env |-> [series |-> EtfSeries(v)]] :
        v \in [1..MaxDays -> {100, 130}]}

\* ticker.history(period=...) of the next trading day: one more row
TradingDay ==
    /\ chainIn.fn = "history"
    /\ lastRun.fetcher = "etf"
    /\ Len(upstream.etf.series["GLD"]) < Len(chainIn.env.series)
    /\ upstream' = AsOf(chainIn.env.series, Len(upstream.etf.series["GLD"]) + 1)
    /\ lastRun' = NoRun
    /\ UNCHANGED <<storeVars, gapVars, chainVars, shfeVars, pipeVars, execVars>>

(***************************************************************************)
(* PriceFetcher.fetch_shfe_futures and fetch_cme_futures, price_fetcher.py *)
(***************************************************************************)
\* a future_prices_daily record
future_record(date, exchange, metal, contract, close, oi, volume, currency, source) ==
    [date |-> Some(date), exchange |-> Some(exchange), metal |-> Some(metal),
     contract |-> Some(contract), close_price |-> close, open_interest |-> oi,
     volume |-> volume, currency |-> Some(currency), source |-> Some(source)]

\* fetch_shfe_futures(metal, full_history): the frame of ak.futures_main_sina,
\* its last 5 rows unless full_history; the date and the closing price are
\* required (KeyError), open interest and volume are taken when the frame has
\* the column; every failure is caught inside
fetch_shfe_futures(resp, metal, full_history) ==
    LET df == IF full_history THEN resp.rows ELSE Tail_n(resp.rows, 5)
        symbol == IF metal = "gold" THEN "au0" ELSE "ag0"
    IN  IF resp.kind # "frame" \/ resp.rows = <<>> THEN <<>>
        ELSE IF ~ ({"date", "close"} \subseteq resp.columns) THEN <<>>
        ELSE [k \in 1..Len(df) |->
                future_record(df[k].date, "SHFE", metal, symbol, Some(df[k].close),
                              IF "open_interest" \in resp.columns
                              THEN df[k].open_interest ELSE NULL,
                              IF "volume" \in resp.columns THEN df[k].volume ELSE NULL,
                              "CNY", "akshare_sina")]

\* fetch_cme_futures(metal, days): one attempt at ticker.history(period=days),
\* no retry; a timeout and every other failure are caught inside
fetch_cme_futures(yf, metal, days) ==
    LET df == Tail_n(yf.rows[metal], days)
    IN  IF yf.PM_SKIP_YFINANCE = "1" THEN <<>>
        ELSE IF yf.kind # "history" \/ df = <<>> THEN <<>>
        ELSE [k \in 1..Len(df) |->
                future_record(df[k].date, "CME", metal, "continuous",
                              Some(df[k].close), NULL, df[k].volume, "USD", "yfinance")]

(***************************************************************************)
(* CFTCFetcher.backfill_history, cftc_fetcher.py: one ZIP per year.        *)
(***************************************************************************)
RECURSIVE zip_rows(_, _, _, _)
\* for _, row in sub.iterrows(): the records of the rows that give one
zip_rows(rows, i, metal, records) ==
    IF i > Len(rows) THEN records
    ELSE zip_rows(rows, i + 1, metal,
                  records \o _extract_cot_row(rows[i], metal, "cftc_zip"))

\* the records of the year's ZIP: none when the download fails, the status is
\* not 200, the archive has no txt file or the frame lacks the code column
zip_records(resp) ==
    IF resp.kind # "zip" \/ resp.status # 200 THEN <<>>
    ELSE zip_rows(cot_sub(resp.rows, "GOLD"), 1, "gold", <<>>)
         \o zip_rows(cot_sub(resp.rows, "SILVER"), 1, "silver", <<>>)

RECURSIVE backfill_history(_, _, _, _)
\* for year in range(start_year, current_year + 1), from year i on: the
\* records of a year are written by one insert_batch inside the try, whose
\* except Exception takes a failed batch for a failed year
backfill_history(rows, zips, i, total_inserted) ==
    IF i > Len(zips) THEN [rows |-> rows, count |-> total_inserted]
    ELSE CHOOSE out \in
            {IF res.raised THEN backfill_history(rows, zips, i + 1, total_inserted)
             ELSE backfill_history(res.rows, zips, i + 1, total_inserted + res.count) :
                res \in {insert_batch(rows, "cftc_positions_weekly",
                                      zip_records(zips[i]), FALSE)}} : TRUE

(***************************************************************************)
(* run_backfill.main, run_backfill.py: prices, FX, ETF, then CFTC.  No     *)
(* step is guarded: an exception of insert_batch ends main.                *)
(***************************************************************************)
\* days=3650, the 10-year request of the backfill
BACKFILL_DAYS == 3650

\* [r for r in records if r["source"] == / != source]
with_source(records, source, equal) ==
    SelectSeq(records, LAMBDA r : (r["source"] = Some(source)) = equal)

\* insert_batch(t, records) of main on a list that is not empty
written(tbls, t, records) ==
    CHOOSE out \in
        {[tables |-> [tbls EXCEPT ![t] = res.rows], raised |-> res.raised,
          batches |-> <<[table |-> t, records |-> records]>>] :
            res \in {insert_batch(tbls[t], t, records, FALSE)}} : TRUE

\* `if records: db.insert_batch(t, records)` after the steps that gave prev:
\* nothing runs after a step that raised
then_batch(prev, t, records) ==
    IF prev.raised THEN prev
    ELSE CHOOSE out \in
            {IF recs = <<>> THEN prev
             ELSE [written(prev.tables, t, recs)
                      EXCEPT !.batches = prev.batches \o @] :
                recs \in {records}} : TRUE

\* the prices of one metal: SGE spot, SHFE futures, CME futures
backfill_prices(env, metal) ==
    fetch_sge_spot(env.sge, metal, TRUE).records
    \o fetch_shfe_futures(env.shfe[metal], metal, TRUE)
    \o fetch_cme_futures(env.cme, metal, BACKFILL_DAYS)

\* the ticker.history requests of the ETF step: symbol, days asked by main,
\* period asked of the upstream
etf_requests(rows, yf) ==
    IF yf.PM_SKIP_YFINANCE = "1" THEN <<>>
    ELSE <<[symbol |-> "GLD", days |-> BACKFILL_DAYS,
            period |-> fetch_days(rows, "GLD", BACKFILL_DAYS)],
           [symbol |-> "SLV", days |-> BACKFILL_DAYS,
            period |-> fetch_days(rows, "SLV", BACKFILL_DAYS)]>>

\* step 4 of main, CFTC, after the steps that gave fx and then etf
main_cftc(env, all_prices, fx, etf) ==
    CHOOSE out \in
        {[tables |-> IF etf.raised THEN etf.tables
                     ELSE [etf.tables EXCEPT !["cftc_positions_weekly"] = cftc.rows],
          raised |-> etf.raised, prices |-> all_prices, batches |-> etf.batches,
          requests |-> IF fx.raised THEN <<>>
                       ELSE etf_requests(fx.tables["etf_holdings_daily"], env.etf)] :
            cftc \in {backfill_history(etf.tables["cftc_positions_weekly"],
                                       env.zips, 1, 0)}} : TRUE

\* step 3 of main, ETF: both symbols with days=3650, one batch
main_etf(env, all_prices, fx) ==
    CHOOSE out \in
        {main_cftc(env, all_prices, fx, etf) :
            etf \in {then_batch(fx, "etf_holdings_daily",
                        fetch_etf(fx.tables["etf_holdings_daily"], env.etf, "GLD",
                                  BACKFILL_DAYS)
                        \o fetch_etf(fx.tables["etf_holdings_daily"], env.etf, "SLV",
                                     BACKFILL_DAYS))}} : TRUE

\* step 2 of main, FX: fetch_usdcnh_history is _fetch_via_yfinance("10y")
main_fx(env, all_prices, future) ==
    CHOOSE out \in
        {main_etf(env, all_prices, fx) :
            fx \in {then_batch(future, "fx_rates_daily",
                               _fetch_via_yfinance(env.fx))}} : TRUE

\* step 1 of main, the prices: the records with source akshare_sge go to
\* spot_prices_daily, all the others to future_prices_daily
backfill_steps(tbls, env, all_prices) ==
    CHOOSE out \in
        {main_fx(env, all_prices, future) :
            future \in
                {then_batch(then_batch([tables |-> tbls, raised |-> FALSE,
                                        batches |-> <<>>],
                                       "spot_prices_daily",
                                       with_source(all_prices, "akshare_sge", TRUE)),
                            "future_prices_daily",
                            with_source(all_prices, "akshare_sge", FALSE))}} : TRUE

\* main()
run_backfill(tbls, env) ==
    CHOOSE out \in
        {backfill_steps(tbls, env, gold \o silver) :
            gold \in {backfill_prices(env, "gold")},
            silver \in {backfill_prices(env, "silver")}} : TRUE

(***************************************************************************)
(* What the upstreams of the backfill may answer: one family varies while  *)
(* the others serve a fixed answer.                                        *)
(***************************************************************************)
ShfeFutureRow(date) ==
    [date |-> date, close |-> 480, open_interest |-> Some(9000), volume |-> NULL]

ShfeFutureFrames ==
    {[kind |-> "raises", columns |-> {}, rows |-> <<>>],
     [kind |-> "frame", columns |-> {"date", "close", "open_interest", "volume"},
      rows |-> <<>>],
     [kind |-> "frame", columns |-> {"date", "close", "open_interest", "volume"},
      rows |-> <<ShfeFutureRow(Today)>>],
     [kind |-> "frame", columns |-> {"date", "close"},
      rows |-> <<ShfeFutureRow("2024-01-04"), ShfeFutureRow(Today)>>],
     [kind |-> "frame", columns |-> {"date", "volume"},
      rows |-> <<ShfeFutureRow(Today)>>]}

CmeRow(date, volume) == [date |-> date, close |-> 2040, volume |-> volume]

CmeUpstreams ==
    {[PM_SKIP_YFINANCE |-> skip, kind |-> k, rows |-> [gold |-> r, silver |-> r]] :
        skip \in {"0", "1"}, k \in {"history", "raises"},
        r \in {<<>>, <<CmeRow(Today, Some(7))>>,
               <<CmeRow("2024-01-04", NULL), CmeRow(Today, Some(7))>>}}

ZipResponses ==
    {[kind |-> "raises", status |-> 0, rows |-> <<>>],
     [kind |-> "zip", status |-> 404, rows |-> <<>>]}
    \cup {[kind |-> "zip", status |-> 200, rows |-> r] :
            r \in {q \in Payloads(CotRows) : Len(q) = 2}}

\* the store before the backfill: new, or with the ETF rows of earlier runs
BackfillStores ==
    {[InitialTables EXCEPT !["etf_holdings_daily"] =
          etf_update_daily(<<>>, e).rows] :
        e \in {u \in EtfUpstreams : /\ u.PM_SKIP_YFINANCE = "0" /\ u.failed = 0
                                    /\ Len(u.series["GLD"]) \in {0, 1, 2}
                                    /\ \A k \in 1..Len(u.series["GLD"]) :
                                          u.series["GLD"][k].Volume = 100}}

BackfillEnv(sge, futures, cme, fx, etf, zips) ==
    [sge |-> sge, shfe |-> [gold |-> futures, silver |-> futures], cme |-> cme,
     fx |-> fx, etf |-> etf, zips |-> zips]

\* the environments in which one family varies around the fixed answers
BackfillFamilies(sge0, fut0, cme0, fx0, etf0, zips0) ==
    {BackfillEnv(e, fut0, cme0, fx0, etf0, zips0) : e \in SgeSpotEnvs}
    \cup {BackfillEnv(sge0, f, c, fx0, etf0, zips0) :
            f \in ShfeFutureFrames, c \in CmeUpstreams}
    \cup {BackfillEnv(sge0, fut0, cme0, y, etf0, zips0) : y \in YfinanceResponses}
    \cup {BackfillEnv(sge0, fut0, cme0, fx0, u, zips0) : u \in EtfUpstreams}
    \cup {BackfillEnv(sge0, fut0, cme0, fx0, etf0, <<a, b>>) :
            a \in ZipResponses, b \in ZipResponses}

BackfillEnvs ==
    CHOOSE envs \in
        {BackfillFamilies(sge0, fut0, cme0, fx0, etf0, <<z1, z2>>) :
            sge0 \in {CHOOSE e \in SgeSpotEnvs :
                        /\ e.akshare["gold"].kind = "frame"
                        /\ e.akshare["gold"].columns = {"date", "close"}
                        /\ Len(e.akshare["gold"].rows) = 2
                        /\ \A k \in 1..2 : e.akshare["gold"].rows[k].close.kind = "number"},
            fut0 \in {CHOOSE f \in ShfeFutureFrames : Len(f.rows) = 2},
            cme0 \in {CHOOSE c \in CmeUpstreams :
                        /\ c.PM_SKIP_YFINANCE = "0" /\ c.kind = "history"
                        /\ Len(c.rows["gold"]) = 2},
            fx0 \in {CHOOSE y \in YfinanceResponses : _fetch_via_yfinance(y) # <<>>},
            etf0 \in {CHOOSE u \in EtfUpstreams :
                        /\ u.PM_SKIP_YFINANCE = "0" /\ u.failed = 0
                        /\ Len(u.series["GLD"]) = 3 /\ u.series["SLV"] # <<>>},
            z1 \in {CHOOSE z \in ZipResponses : z.kind = "raises"},
            z2 \in {CHOOSE z \in ZipResponses : zip_records(z) # <<>>}} : TRUE

\* python collector/run_backfill.py
RunBackfill ==
    /\ chainIn.fn = "run_backfill"
    /\ chainOut = NotCalled
    /\ \E res \in {run_backfill(tables, chainIn.env)} :
          /\ tables' = res.tables
          /\ chainOut' = [calls |-> <<>>, records |-> res.prices, raised |-> res.raised,
                          done |-> TRUE, batches |-> res.batches,
                          requests |-> res.requests]
    /\ UNCHANGED <<chainIn, lastCall, lastWritten, gapVars, shfeVars, runVars, pipeVars, execVars>>

(***************************************************************************)
(* The specifications: each moves one component, the others stay idle.     *)
(***************************************************************************)
NotRun == [log |-> "none", gaps |-> <<>>, major |-> <<>>, found |-> 0,
           shown |-> <<>>, truncated |-> FALSE]

IdleGaps ==
    /\ gapIn = [start |-> 0, today |-> 0, stored |-> {}]
    /\ gapOut = NotRun

IdleChain ==
    /\ chainIn = [fn |-> "none", env |-> <<>>]
    /\ chainOut = NotCalled

\* check_gaps_for_series(db, table, filters, name, start_date) runs
CheckGaps ==
    /\ gapOut = NotRun
    /\ gapOut' = check_gaps_for_series(gapIn)
    /\ UNCHANGED <<gapIn, storeVars, chainVars, shfeVars, runVars, pipeVars, execVars>>

\* the store as DatabaseManager() leaves it, the other components idle
InitSpecStore == InitStore /\ IdleGaps /\ IdleChain /\ IdleShfe /\ IdleRuns
    /\ IdlePipeline /\ IdleExecutor

NextStore == InsertBatch

SpecStore == InitSpecStore /\ [][NextStore]_vars

\* the detector before its call, on any of its inputs
InitGaps ==
    /\ InitStore /\ IdleChain /\ IdleShfe /\ IdleRuns /\ IdlePipeline /\ IdleExecutor
    /\ gapIn \in GapInputs
    /\ gapOut = NotRun

NextGaps == CheckGaps

SpecGaps == InitGaps /\ [][NextGaps]_vars

\* a chain function before its call, on any answers of its providers
InitFetch ==
    /\ InitStore /\ IdleGaps /\ IdleShfe /\ IdleRuns /\ IdlePipeline /\ IdleExecutor
    /\ chainIn \in ChainInputs
    /\ chainOut = NotCalled

NextFetch == FetchUsdcnh \/ FetchCotReport \/ FetchLbmaSpot

SpecFetch == InitFetch /\ [][NextFetch]_vars

\* a process that has not called fetch_shfe yet
InitShfe == InitStore /\ IdleGaps /\ IdleChain /\ IdleRuns /\ IdleShfe
    /\ IdlePipeline /\ IdleExecutor

NextShfe == FetchShfe

SpecShfe == InitShfe /\ [][NextShfe]_vars

\* an empty store, and upstreams that serve the same data at every run
InitRuns ==
    /\ InitStore /\ IdleGaps /\ IdleChain /\ IdleShfe /\ IdlePipeline /\ IdleExecutor
    /\ upstream \in Upstreams
    /\ lastRun = NoRun

NextRuns == EtfUpdateDaily \/ FxUpdateDaily \/ CftcUpdateIfReportDay

SpecRuns == InitRuns /\ [][NextRuns]_vars

\* fetch_comex before its call, on any sheet
InitComex ==
    /\ InitStore /\ IdleGaps /\ IdleShfe /\ IdleRuns /\ IdlePipeline /\ IdleExecutor
    /\ chainIn \in {[fn |-> "fetch_comex", env |-> e] : e \in ComexEnvs}
    /\ chainOut = NotCalled

NextComex == FetchComex

SpecComex == InitComex /\ [][NextComex]_vars

\* fetch_sge_pdf before its call, on any article list and document
InitSge ==
    /\ InitStore /\ IdleGaps /\ IdleShfe /\ IdleRuns /\ IdlePipeline /\ IdleExecutor
    /\ chainIn \in {[fn |-> "fetch_sge_pdf", env |-> e] : e \in SgeEnvs}
    /\ chainOut = NotCalled

NextSge == FetchSgePdf

SpecSge == InitSge /\ [][NextSge]_vars

\* the pipeline before its call, on an empty store
InitPipeline ==
    /\ InitStore /\ IdleGaps /\ IdleChain /\ IdleShfe /\ IdleRuns /\ IdleExecutor
    /\ pipeIn \in PipelineEnvs
    /\ pipeOut = NotStarted

NextPipeline == RunDailyPipeline

SpecPipeline == InitPipeline /\ [][NextPipeline]_vars

\* a retrying provider call before its first attempt; every step that is
\* enabled is taken in the end
InitExecutor ==
    /\ InitStore /\ IdleGaps /\ IdleChain /\ IdleShfe /\ IdleRuns /\ IdlePipeline
    /\ executor \in RetryingCalls

NextExecutor ==
    \/ Submit \/ WorkerEnds \/ Result \/ Timeout \/ Shutdown \/ Get \/ Break
    \/ Except \/ ReturnRecords

SpecExecutor == InitExecutor /\ [][NextExecutor]_vars /\ WF_vars(NextExecutor)

\* fetch_shfe before its call, on any answers of the endpoint over the window
InitLookback ==
    /\ InitStore /\ IdleGaps /\ IdleShfe /\ IdleRuns /\ IdlePipeline /\ IdleExecutor
    /\ chainIn \in {[fn |-> "fetch_shfe", env |-> e] : e \in LookbackEnvs}
    /\ chainOut = NotCalled

NextLookback == FetchShfeLookback

SpecLookback == InitLookback /\ [][NextLookback]_vars

\* fetch_comex before its call, on a sheet with a separator row
InitSeparators ==
    /\ InitStore /\ IdleGaps /\ IdleShfe /\ IdleRuns /\ IdlePipeline /\ IdleExecutor
    /\ chainIn \in {[fn |-> "fetch_comex", env |-> e] : e \in SeparatorEnvs}
    /\ chainOut = NotCalled

NextSeparators == FetchComex

SpecSeparators == InitSeparators /\ [][NextSeparators]_vars

\* fetch_sge_spot before its call, on any answer of akshare and of the page
InitSpot ==
    /\ InitStore /\ IdleGaps /\ IdleShfe /\ IdleRuns /\ IdlePipeline /\ IdleExecutor
    /\ chainIn \in SgeSpotInputs
    /\ chainOut = NotCalled

NextSpot == FetchSgeSpot

SpecSpot == InitSpot /\ [][NextSpot]_vars

\* an empty store on some day of a fixed series; a run every day from then on
InitWindow ==
    /\ InitStore /\ IdleGaps /\ IdleShfe /\ IdlePipeline /\ IdleExecutor
    /\ chainIn \in WindowInputs
    /\ chainOut = NotCalled
    /\ \E n \in 1..MaxDays : upstream = AsOf(chainIn.env.series, n)
    /\ lastRun = NoRun

NextWindow == EtfUpdateDaily \/ TradingDay

SpecWindow == InitWindow /\ [][NextWindow]_vars

\* the backfill before it starts, on a new store or one with ETF rows
InitBackfill ==
    /\ tables \in BackfillStores
    /\ lastCall = [writeFails |-> FALSE, ioError |-> FALSE, raised |-> FALSE,
                   count |-> 0, uncommitted |-> FALSE]
    /\ lastWritten = [t \in TableNames |-> <<>>]
    /\ IdleGaps /\ IdleShfe /\ IdleRuns /\ IdlePipeline /\ IdleExecutor
    /\ chainIn \in {[fn |-> "run_backfill", env |-> e] : e \in BackfillEnvs}
    /\ chainOut = NotCalled

NextBackfill == RunBackfill

SpecBackfill == InitBackfill /\ [][NextBackfill]_vars

(***************************************************************************)
(* The store: claims.                                                      *)
(***************************************************************************)
\* the rows of table t stored under natural key k
RowsOfKey(t, k) == {i \in 1..Len(tables[t]) : KeyOf(t, tables[t][i]) = k}

\* C1: after any sequence of insert_batch calls every table holds at most one
\* row per natural key
C1_OneRowPerKey ==
    \A t \in TableNames :
        \A i, j \in 1..Len(tables[t]) :
            KeyOf(t, tables[t][i]) = KeyOf(t, tables[t][j]) => i = j

\* C2: the value stored for a natural key is the value of the last record with
\* that key in the most recent successful batch that contained it, in exactly
\* one row
C2_LastWriteWins ==
    \A t \in TableNames :
        \A k \in DOMAIN lastWritten[t] :
            /\ Cardinality(RowsOfKey(t, k)) = 1
            /\ \A i \in RowsOfKey(t, k) :
                  tables[t][i][ValueColumn(t)] = lastWritten[t][k]

\* C3: when a write of an insert_batch call fails, the call raises and the
\* table is exactly what it was before the call
C3_AtomicBatch ==
    [][lastCall'.writeFails => (lastCall'.raised /\ tables' = tables)]_vars

\* a call whose first record was written, changing the stored rows of a table
\* that was not empty, and whose second record was refused
C3_Witness ==
    /\ lastCall.writeFails
    /\ ~ lastCall.ioError
    /\ lastCall.raised
    /\ lastCall.count = 1
    /\ lastCall.uncommitted
    /\ tables["inventory_daily"] # <<>>

Priority(fn) ==
    CASE fn = "fetch_usdcnh" -> <<"akshare", "yfinance">>
      [] fn = "fetch_cot_report" -> <<"pycot", "cftc_api(year)", "cftc_api(year-1)">>
      [] fn = "fetch_lbma_spot" -> <<"sina", "lbma_web", "yahoo">>

\* the source id a provider's records carry
SourceId(provider) ==
    CASE provider = "akshare" -> "akshare"
      [] provider = "yfinance" -> "yfinance"
      [] provider = "pycot" -> "pycot"
      [] provider \in {"cftc_api(year)", "cftc_api(year-1)"} -> "cftc_api"
      [] provider = "sina" -> "sina_hq"
      [] provider = "lbma_web" -> "scrapling_lbma_web"
      [] provider = "yahoo" -> "yahoo_api_cffi_fallback"

\* the provider call yielded records
Yields(call) == ~ call.raised /\ call.returned # <<>>

\* C5: the providers are tried in priority order, each only after every
\* earlier one yielded nothing, none after one that yielded, and the result is
\* the records of the first provider that yields, tagged with its source id
C5_FallbackOrdering ==
    chainOut.done =>
        LET calls == chainOut.calls
            order == Priority(chainIn.fn)
            n == Len(calls)
        IN  /\ n >= 1 /\ n <= Len(order)
            /\ \A i \in 1..n : calls[i].provider = order[i]
            /\ \A i \in 1..(n - 1) : ~ Yields(calls[i])
            /\ IF Yields(calls[n])
               THEN /\ chainOut.records = calls[n].returned
                    /\ \A k \in 1..Len(chainOut.records) :
                          chainOut.records[k].source = Some(SourceId(calls[n].provider))
               ELSE chainOut.records = <<>>

\* C6: when no provider yields a record the chain function returns an empty
\* list and raises nothing
C6_AllProvidersFail ==
    (chainOut.done /\ \A i \in 1..Len(chainOut.calls) : ~ Yields(chainOut.calls[i])) =>
        (chainOut.records = <<>> /\ ~ chainOut.raised)

(***************************************************************************)
(* fetch_shfe: claims.                                                     *)
(***************************************************************************)
\* C7: the failure count is kept across the invocations of a process, and
\* over a streak of failing invocations exactly one alert is sent, when the
\* streak reaches the threshold 3, and none on the later failures of the streak
C7_OneAlertPerStreak ==
    shfe.streakAlerts = IF shfe.streak >= ALERT_THRESHOLD THEN 1 ELSE 0

(***************************************************************************)
(* The gap detector: claims.                                               *)
(***************************************************************************)
\* the business days of start_date..today that have no stored row
MissingDays == {d \in gapIn.start..gapIn.today :
                    IsBusinessDay(d) /\ d \notin gapIn.stored}

\* the business days strictly between two days
BusinessDaysBetween(a, b) == {d \in (a + 1)..(b - 1) : IsBusinessDay(d)}

\* a set of missing days that are consecutive in the business-day sequence
IsRun(R) ==
    /\ R # {}
    /\ R \subseteq MissingDays
    /\ \A a, b \in R : BusinessDaysBetween(a, b) \subseteq R

\* the missing day d opens a maximal run: no missing business day just before
OpensRun(d) ==
    /\ d \in MissingDays
    /\ ~ \E e \in MissingDays : e < d /\ BusinessDaysBetween(e, d) = {}

\* the maximal run opened by d
RunFrom(d) == {e \in MissingDays :
                  e >= d /\ BusinessDaysBetween(d, e) \subseteq MissingDays}

\* the maximal runs of missing business days
MaximalRuns == {RunFrom(d) : d \in {e \in MissingDays : OpensRun(e)}}

\* the days of a group, as a set
Days(g) == {g[k] : k \in 1..Len(g)}

\* C8: a group of consecutive missing business days is an anomaly iff its
\* length is >= 3; five consecutive missing business days in an otherwise
\* complete range give exactly one anomaly of length 5, one isolated missing
\* business day gives none
C8_GapThreshold ==
    gapOut.log # "none" =>
        LET runs == MaximalRuns
            anomalies == {R \in runs : Cardinality(R) >= 3}
        IN  /\ {Days(gapOut.major[k]) : k \in 1..Len(gapOut.major)} = anomalies
            /\ Len(gapOut.major) = Cardinality(anomalies)
            /\ gapOut.found = Len(gapOut.major)
            /\ (gapOut.log = "warning") = (anomalies # {})
            /\ (Cardinality(runs) = 1 /\ Cardinality(MissingDays) = 5) =>
                  /\ gapOut.found = 1
                  /\ Len(gapOut.shown) = 1
                  /\ gapOut.shown[1].length = 5
            /\ Cardinality(MissingDays) = 1 => (gapOut.found = 0 /\ gapOut.log = "minor")

\* five consecutive business days missing, over a weekend, between stored days
C8_Witness ==
    /\ gapOut.log = "warning"
    /\ gapOut.found = 1
    /\ Cardinality(MissingDays) = 5
    /\ gapOut.shown[1].length = 5
    /\ gapOut.shown[1].end - gapOut.shown[1].start = 6
    /\ \E d \in gapIn.stored : d >= gapIn.start /\ d < gapOut.shown[1].start
    /\ \E d \in gapIn.stored : d <= gapIn.today /\ d > gapOut.shown[1].end

\* C9: the groups are exactly the maximal runs of missing days that are
\* consecutive in the business-day sequence of start_date..today; they are
\* disjoint, cover the missing business days, and two groups are separated by a
\* business day that has a stored row
C9_GapGrouping ==
    gapOut.log # "none" =>
        LET gaps == gapOut.gaps
        IN  /\ {Days(gaps[k]) : k \in 1..Len(gaps)} = MaximalRuns
            /\ \A k \in 1..Len(gaps) :
                  /\ IsRun(Days(gaps[k]))
                  /\ Cardinality(Days(gaps[k])) = Len(gaps[k])
            /\ \A j, k \in 1..Len(gaps) :
                  j # k => Days(gaps[j]) \cap Days(gaps[k]) = {}
            /\ \A d \in MissingDays :
                  Cardinality({k \in 1..Len(gaps) : d \in Days(gaps[k])}) = 1
            /\ \A j, k \in 1..Len(gaps) :
                  j < k =>
                     \E d \in gapIn.stored :
                        /\ IsBusinessDay(d)
                        /\ gaps[j][Len(gaps[j])] < d
                        /\ d < gaps[k][1]

\* two groups, one of them holding a Friday and the Monday after it
C9_Witness ==
    /\ Len(gapOut.gaps) >= 2
    /\ \E k \in 1..Len(gapOut.gaps) :
          \E d \in Days(gapOut.gaps[k]) :
              d % 7 = 4 /\ (d + 3) \in Days(gapOut.gaps[k])

\* C10 as stated: every anomaly group is in the output, longest first
C10_AllGapsListed ==
    gapOut.log # "none" =>
        /\ Len(gapOut.shown) = Len(gapOut.major)
        /\ \A k \in 1..(Len(gapOut.shown) - 1) :
              gapOut.shown[k].length >= gapOut.shown[k + 1].length

\* the anomaly group with the given start date is in the output
Listed(g) ==
    \E k \in 1..Len(gapOut.shown) :
        gapOut.shown[k] = [start |-> g[1], end |-> g[Len(g)], length |-> Len(g)]

\* C10, amended: the output lists anomaly groups only, each with its start,
\* end and length, longest first, and holds the 5 longest of them; none is
\* omitted when there are at most 5, the rest is omitted when there are more
C10_LongestGapsListed ==
    gapOut.log # "none" =>
        LET major == gapOut.major
            shown == gapOut.shown
        IN  /\ Len(shown) = IF Len(major) <= ShownGaps THEN Len(major) ELSE ShownGaps
            /\ \A k \in 1..Len(shown) :
                  \E j \in 1..Len(major) :
                      shown[k] = [start |-> major[j][1],
                                  end |-> major[j][Len(major[j])],
                                  length |-> Len(major[j])]
            /\ \A j, k \in 1..Len(shown) : j # k => shown[j].start # shown[k].start
            /\ \A k \in 1..(Len(shown) - 1) : shown[k].length >= shown[k + 1].length
            /\ \A j \in 1..Len(major) :
                  ~ Listed(major[j]) =>
                      \A k \in 1..Len(shown) : shown[k].length >= Len(major[j])
            /\ gapOut.truncated = (Len(major) > ShownGaps)

\* six anomaly groups of different lengths: five listed, the shortest omitted
C10_Witness ==
    /\ gapOut.log = "warning"
    /\ gapOut.found = 6
    /\ Len(gapOut.shown) = 5
    /\ gapOut.truncated
    /\ gapOut.shown[1].length > gapOut.shown[5].length
    /\ gapOut.shown[1].start > gapOut.shown[5].start

(***************************************************************************)
(* The COMEX sheet: claims.                                                *)
(***************************************************************************)
\* the sheet of the call is a header row followed by k >= 1 warehouse blocks,
\* each with a Registered and an Eligible row that carry numbers
BlockGrid(env) ==
    /\ env.kind = "sheet" /\ env.header # <<>> /\ env.trailer = <<>>
    /\ env.blocks # <<>>
    /\ \A i \in 1..Len(env.blocks) :
          /\ env.blocks[i].registered # NULL /\ env.blocks[i].eligible # NULL
          /\ ~ env.blocks[i].garbled
    /\ \A i, j \in 1..Len(env.blocks) :
          env.blocks[i].name = env.blocks[j].name => i = j

\* what of a record the claim speaks of
Core(r) == [category |-> r.category, warehouse |-> r.warehouse,
            inventory |-> r.inventory, unit |-> r.unit]

CoreOf(category, warehouse, inventory, unit) ==
    [category |-> category, warehouse |-> warehouse, inventory |-> inventory,
     unit |-> unit]

\* the ounces of a block: its Total row when it has one, else the sum
BlockTotal(b) ==
    IF b.total # NULL THEN b.total[1] ELSE b.registered[1] + b.eligible[1]

\* registered and eligible in oz, total in tons
BlockCores(b) ==
    <<CoreOf("registered", <<b.name>>, b.registered[1], "oz"),
      CoreOf("eligible", <<b.name>>, b.eligible[1], "oz"),
      CoreOf("total", <<b.name>>, to_ton(BlockTotal(b)), "ton")>>

RECURSIVE SumOver(_, _, _)
SumOver(blocks, i, cat) ==
    IF i > Len(blocks) THEN 0 ELSE blocks[i][cat][1] + SumOver(blocks, i + 1, cat)

AggregateCores(blocks) ==
    <<CoreOf("registered", <<>>, SumOver(blocks, 1, "registered"), "oz"),
      CoreOf("eligible", <<>>, SumOver(blocks, 1, "eligible"), "oz"),
      CoreOf("total", <<>>,
             to_ton(SumOver(blocks, 1, "registered") + SumOver(blocks, 1, "eligible")),
             "ton")>>

RECURSIVE AllBlockCores(_, _, _)
\* the records of the blocks from block i on; positiveOnly leaves out the
\* blocks whose ounces are 0
AllBlockCores(blocks, i, positiveOnly) ==
    IF i > Len(blocks) THEN <<>>
    ELSE (IF positiveOnly /\ BlockTotal(blocks[i]) <= 0 THEN <<>>
          ELSE BlockCores(blocks[i]))
         \o AllBlockCores(blocks, i + 1, positiveOnly)

OutCores == [i \in 1..Len(chainOut.records) |-> Core(chainOut.records[i])]

\* C11 (as stated): a header row followed by k warehouse blocks gives 3
\* records per warehouse (registered and eligible in oz, total in tons) and 3
\* aggregate records with warehouse '' that carry the sums
C11_ThreePerWarehouse ==
    (chainOut.done /\ chainIn.fn = "fetch_comex" /\ BlockGrid(chainIn.env)) =>
        OutCores = AllBlockCores(chainIn.env.blocks, 1, FALSE)
                   \o AggregateCores(chainIn.env.blocks)

\* C11 (amended): the same, but a warehouse whose ounces are 0 gets no
\* record of its own; the two-warehouse fixture gives 6 + 3 records with the
\* aggregates 120000 oz, 130000 oz and 7.7759 t
C11_BlockRecords ==
    (chainOut.done /\ chainIn.fn = "fetch_comex" /\ BlockGrid(chainIn.env)) =>
        /\ OutCores = AllBlockCores(chainIn.env.blocks, 1, TRUE)
                      \o AggregateCores(chainIn.env.blocks)
        /\ chainIn.env.blocks = Fixture =>
              /\ Len(OutCores) = 9
              /\ OutCores[3].inventory = 46655 /\ OutCores[6].inventory = 31103
              /\ OutCores[7] = CoreOf("registered", <<>>, 120000, "oz")
              /\ OutCores[8] = CoreOf("eligible", <<>>, 130000, "oz")
              /\ OutCores[9] = CoreOf("total", <<>>, 77759, "ton")

\* the fixture was parsed, and so was a grid with an empty warehouse
C11_Witness ==
    /\ chainOut.done /\ chainIn.fn = "fetch_comex" /\ BlockGrid(chainIn.env)
    /\ chainIn.env.blocks = Fixture
    /\ Len(chainOut.records) = 9

\* no row of the sheet has DEPOSITORY or PREV in its first cell
NoHeaderMarker(sheet) ==
    \A i \in 1..Len(sheet) : \A j \in 1..Len(sheet[i].c0) :
        upper_word(sheet[i].c0[j]) \notin {"DEPOSITORY", "PREV"}

\* none of the first 10 rows carries a Report Date or Activity Date marker
NoDateMarker(sheet) ==
    \A i \in 1..Len(sheet) : i <= 10 =>
        \A j \in 1..Len(sheet[i].c0) :
            sheet[i].c0[j] \notin {"Report Date", "Activity Date"}

\* C12: a sheet without header marker gives no record and no exception,
\* whatever its rows; a sheet without date marker in its first 10 rows is
\* parsed all the same and its records carry the run date
C12_NoHeaderNoRecords ==
    (chainOut.done /\ chainIn.fn = "fetch_comex" /\ chainIn.env.kind = "sheet") =>
        /\ NoHeaderMarker(chainIn.env.sheet) =>
              /\ chainOut.records = <<>>
              /\ ~ chainOut.raised
              /\ \A i \in 1..Len(chainOut.calls) : ~ chainOut.calls[i].raised
        /\ NoDateMarker(chainIn.env.sheet) =>
              /\ \A i \in 1..Len(chainOut.records) :
                    chainOut.records[i].date = chainIn.env.today
              /\ BlockGrid(chainIn.env) =>
                    OutCores = AllBlockCores(chainIn.env.blocks, 1, TRUE)
                               \o AggregateCores(chainIn.env.blocks)

\* a sheet with a warehouse and its rows but no header was parsed
C12_Witness ==
    /\ chainOut.done /\ chainIn.fn = "fetch_comex" /\ chainIn.env.kind = "sheet"
    /\ NoHeaderMarker(chainIn.env.sheet)
    /\ \E i, j \in 1..Len(chainIn.env.sheet) :
          /\ i < j
          /\ chainIn.env.sheet[i].c0 = <<"WH1">>
          /\ chainIn.env.sheet[j].c0 = <<"Registered">>
    /\ chainOut.records = <<>>

(***************************************************************************)
(* The CFTC publication gate: claims.                                      *)
(***************************************************************************)
\* C13: on a day that is not Friday update_if_report_day returns 0 without
\* any provider call and without touching the store; on a Friday it makes
\* the calls of fetch_cot_report and writes the records it got
C13_PublicationGate ==
    lastRun.fetcher = "cftc" =>
        IF upstream.weekday # 4
        THEN /\ lastRun.calls = <<>>
             /\ ~ lastRun.inserted /\ ~ lastRun.changed
             /\ lastRun.count = 0 /\ ~ lastRun.raised
        ELSE /\ lastRun.calls = fetch_cot_report(upstream.cot).calls
             /\ lastRun.calls # <<>> /\ lastRun.calls[1].provider = "pycot"
             /\ lastRun.inserted = (fetch_cot_report(upstream.cot).records # <<>>)

\* a Thursday run against an upstream that has a report to give
C13_Witness ==
    /\ lastRun.fetcher = "cftc" /\ upstream.weekday = 3
    /\ fetch_cot_report(upstream.cot).records # <<>>
    /\ lastRun.calls = <<>> /\ tables["cftc_positions_weekly"] = <<>>

(***************************************************************************)
(* The SGE document: claims.                                               *)
(***************************************************************************)
\* fetch_sge_pdf got as far as handing a readable document to _parse_sge_pdf
Parsed ==
    /\ chainOut.done /\ chainIn.fn = "fetch_sge_pdf"
    /\ Len(chainOut.calls) = 2
    /\ chainIn.env.pdf.kind = "pdf" /\ chainIn.env.pdf.status = 200

\* the volume of a commodity summed over every matching row of every table
\* of every page
Accumulated(metal) ==
    LET acc == sge_volumes(chainIn.env.pdf.pages, TRUE)
    IN  IF metal = "gold" THEN acc.gold_vol ELSE acc.silver_vol

RecordsOfMetal(metal) ==
    {i \in 1..Len(chainOut.records) : chainOut.records[i].metal = metal}

\* C14: for any document a commodity whose accumulated volume is > 0 gets
\* exactly one record, carrying that volume in tons, and a commodity whose
\* accumulated volume is 0 gets none
C14_OneRecordPerCommodity ==
    Parsed =>
        \A metal \in {"gold", "silver"} :
            IF Accumulated(metal) > 0
            THEN /\ Cardinality(RecordsOfMetal(metal)) = 1
                 /\ \A i \in RecordsOfMetal(metal) :
                       chainOut.records[i].inventory = kg_to_ton(Accumulated(metal))
            ELSE RecordsOfMetal(metal) = {}

(***************************************************************************)
(* The CFTC records: claims.                                               *)
(***************************************************************************)
\* C15: in every record fetch_cot_report hands back, net_position is
\* non_commercial_long - non_commercial_short when both are there and NULL
\* when one of them is
C15_NetPosition ==
    (chainOut.done /\ chainIn.fn = "fetch_cot_report") =>
        \A i \in 1..Len(chainOut.records) :
            LET r == chainOut.records[i]
            IN  IF r.non_commercial_long # NULL /\ r.non_commercial_short # NULL
                THEN r.net_position
                        = Some(r.non_commercial_long[1] - r.non_commercial_short[1])
                ELSE r.net_position = NULL

\* records with one leg missing came back, from the frame or from the API
C15_Witness ==
    /\ chainOut.done /\ chainIn.fn = "fetch_cot_report"
    /\ \E i, j \in 1..Len(chainOut.records) :
          /\ chainOut.records[i].non_commercial_long = NULL
          /\ chainOut.records[i].non_commercial_short = Some(100)
          /\ chainOut.records[i].net_position = NULL
          /\ chainOut.records[j].net_position = Some(200)

(***************************************************************************)
(* The daily run: claims.                                                  *)
(***************************************************************************)
\* what a fetch stage does when it runs alone on the empty store
Alone(stage) ==
    CASE stage = "inventory" -> Outcome(inventory_update_daily(<<>>, pipeIn.inventory))
      [] stage = "cftc" ->
           IF pipeIn.PM_SKIP_CFTC = "1" THEN "no_data"
           ELSE Outcome(update_if_report_day(<<>>, pipeIn.cot, pipeIn.weekday))
      [] stage = "fx" -> Outcome(fx_update_daily(<<>>, pipeIn.fx))
      [] stage = "price" -> pipeIn.price
      [] stage = "etf" -> Outcome(etf_update_daily(<<>>, pipeIn.etf))

\* the rows a fetch stage leaves when it runs alone on the empty store
RowsAlone(t) ==
    CASE t = "inventory_daily" -> inventory_update_daily(<<>>, pipeIn.inventory).rows
      [] t = "cftc_positions_weekly" ->
           IF pipeIn.PM_SKIP_CFTC = "1" THEN <<>>
           ELSE update_if_report_day(<<>>, pipeIn.cot, pipeIn.weekday).rows
      [] t = "fx_rates_daily" -> fx_update_daily(<<>>, pipeIn.fx).rows
      [] t = "etf_holdings_daily" -> etf_update_daily(<<>>, pipeIn.etf).rows
      [] OTHER -> <<>>

Ran_(name) == \E k \in 1..Len(pipeOut.stages) : pipeOut.stages[k] = name

FailingStages == {FetchStages[k] : k \in {j \in 1..5 : Alone(FetchStages[j]) # "records"}}

\* C16: on a store that opens and answers queries, whichever fetch stages
\* raise or return no data, every fetch stage runs (CFTC unless PM_SKIP_CFTC=1),
\* every stage that has records persists them, the calculators, the report
\* and the freshness check run, and the function returns True
C16_StageIsolation ==
    (pipeOut.called /\ pipeIn.store = "ok") =>
        /\ pipeOut.returned = "True"
        /\ \A k \in 1..5 :
              /\ (FetchStages[k] = "cftc" /\ pipeIn.PM_SKIP_CFTC = "1")
                    \/ Ran_(FetchStages[k])
              /\ Alone(FetchStages[k]) = "records" <=> FetchStages[k] \in pipeOut.persisted
        /\ \A t \in TableNames : tables[t] = RowsAlone(t)
        /\ \A k \in 1..3 : Ran_(Calculators[k])
        /\ Ran_("report") /\ Ran_("freshness")

\* a run in which the inventory stage raised and the price stage had no data,
\* while FX and ETF persisted their records
C16_Witness ==
    /\ pipeOut.called /\ pipeIn.store = "ok"
    /\ Alone("inventory") = "raises" /\ pipeIn.price = "no_data"
    /\ {"fx", "etf"} \subseteq pipeOut.persisted
    /\ tables["fx_rates_daily"] # <<>> /\ tables["etf_holdings_daily"] # <<>>
    /\ pipeOut.returned = "True"

Mails == {k \in 1..Len(pipeOut.events) : pipeOut.events[k].event = "send_email"}

\* C17: in a run with dry_run=True, EmailSender.send_email is never invoked
C17_DryRunNoMail ==
    (pipeOut.called /\ pipeIn.dry_run) => Mails = {}

\* events i < j are successive requests to the same source
Successive(i, j) ==
    /\ i < j
    /\ pipeOut.events[i].event = "request" /\ pipeOut.events[j].event = "request"
    /\ pipeOut.events[i].source = pipeOut.events[j].source
    /\ \A k \in (i + 1)..(j - 1) :
          ~ (pipeOut.events[k].event = "request"
             /\ pipeOut.events[k].source = pipeOut.events[i].source)

SleepBetween(i, j) ==
    \E k \in (i + 1)..(j - 1) :
        pipeOut.events[k].event = "sleep" /\ pipeOut.events[k].source = pipeOut.events[i].source

\* C19: between two successive requests of a run to the same source, the
\* SHFE endpoint or the CME download, there is a sleep
C19_PolitenessDelay ==
    pipeOut.called =>
        \A i, j \in 1..Len(pipeOut.events) : Successive(i, j) => SleepBetween(i, j)

\* the part of C19 that the code keeps: the two COMEX downloads are separated
\* by a sleep, and so are two SHFE requests when the earlier one raised or
\* was answered with data that held no record
C19_DelayAfterComexAndData ==
    pipeOut.called =>
        \A i, j \in 1..Len(pipeOut.events) :
            (/\ Successive(i, j)
             /\ \/ pipeOut.events[i].source = "comex"
                \/ /\ pipeOut.events[i].source = "shfe"
                   /\ LET r == pipeIn.inventory.shfe[Cardinality({k \in 1..i :
                                   pipeOut.events[k].event = "request"
                                   /\ pipeOut.events[k].source = "shfe"})]
                      IN  r.kind = "raises" \/ (r.status = 200 /\ r.body # "bad_json"))
            => SleepBetween(i, j)

(***************************************************************************)
(* The retrying provider calls: claims.                                    *)
(***************************************************************************)
\* C18: when future.result(timeout=15) has raised TimeoutError, the attempt
\* is over for the caller: control leaves the with block and reaches the
\* except clause, whether or not the network call ever returns
C18_HardTimeout ==
    (executor.pc = "shutdown" /\ executor.pending = "TimeoutError")
        ~> (executor.pc = "except")

\* the attempts made by a call that returned
Attempted == {k \in 1..Len(executor.trace) : executor.trace[k].event = "attempt"}

\* the events of a call: attempt 1, sleep 2, attempt 2, sleep 4, attempt 3,
\* sleep 8, attempt 4, cut after an attempt
Protocol ==
    /\ Len(executor.trace) % 2 = 1
    /\ Len(executor.trace) <= 2 * max_retries - 1
    /\ \A k \in 1..Len(executor.trace) :
          executor.trace[k] = IF k % 2 = 1 THEN Step("attempt", (k + 1) \div 2)
                              ELSE Step("sleep", 2 ^ (k \div 2))

\* the first attempt at which the network call is in S, max_retries if none
FirstIn(S) ==
    LET hits == {k \in 1..max_retries : executor.outcomes[k] \in S}
    IN  IF hits = {} THEN max_retries ELSE CHOOSE h \in hits : \A g \in hits : h <= g

Retrying == executor.pc = "returned" /\ executor.fn # "fetch_cme_futures"

\* C20 as stated: an attempt is followed by another whenever it failed or
\* returned an empty result, up to 4 attempts, with sleeps of 2, 4 and 8
\* seconds between them and none after the last
C20_RetryUntilData ==
    Retrying => Protocol /\ Cardinality(Attempted) = FirstIn({"data"})

\* C20: an attempt is followed by another only when it raised or timed out,
\* up to 4 attempts, with sleeps of 2, 4 and 8 seconds between them and none
\* after the last; an attempt that returned, with data or empty, is the last
C20_RetryAfterFailure ==
    Retrying => Protocol /\ Cardinality(Attempted) = FirstIn({"data", "empty"})

\* a call of _fetch_via_api whose 4 attempts all raised
C20_Witness ==
    /\ Retrying /\ executor.fn = "_fetch_via_api"
    /\ \A k \in 1..max_retries : executor.outcomes[k] = "raises"
    /\ Len(executor.trace) = 7 /\ executor.trace[6] = Step("sleep", 8)
    /\ executor.result = "empty"

(***************************************************************************)
(* One call of fetch_shfe: claims.                                         *)
(***************************************************************************)
LookbackDone == chainIn.fn = "fetch_shfe" /\ chainOut.done

\* the offsets requested, in the order of the requests
Requested ==
    LET at == SelectSeq(chainOut.calls, LAMBDA e : e.event = "request")
    IN  [k \in 1..Len(at) |-> at[k].offset]

\* the records that the answer at an offset holds
RecordsAt(offset) ==
    LET r == chainIn.env.responses[offset + 1]
    IN  IF r.kind = "response" /\ r.status = 200 /\ r.body = "json"
        THEN shfe_items(r.items, 1, chainIn.env.target - offset, <<>>).records
        ELSE <<>>

\* the first offset of the window whose answer holds a record, LOOKBACK_DAYS
\* if there is none
FirstWithData ==
    LET hits == {o \in 0..(LOOKBACK_DAYS - 1) : RecordsAt(o) # <<>>}
    IN  IF hits = {} THEN LOOKBACK_DAYS ELSE CHOOSE h \in hits : \A g \in hits : h <= g

\* C21: the offsets 0, 1, ... are requested in that order up to the first one
\* whose answer holds a record, at most 7 of them; the records returned all
\* carry the date of that offset, and none is returned only when no offset of
\* the window holds a record
C21_BoundedLookback ==
    LookbackDone =>
        /\ Len(Requested) <= LOOKBACK_DAYS
        /\ \A k \in 1..Len(Requested) : Requested[k] = k - 1
        /\ Len(Requested) = IF FirstWithData = LOOKBACK_DAYS THEN LOOKBACK_DAYS
                            ELSE FirstWithData + 1
        /\ \A k \in 1..Len(chainOut.records) :
              chainOut.records[k].date = Some(chainIn.env.target - FirstWithData)
        /\ chainOut.records = <<>> <=> FirstWithData = LOOKBACK_DAYS

\* no item of an answer of the window makes the item loop raise
NoItemRaises ==
    \A k \in 1..LOOKBACK_DAYS :
        \A i \in 1..Len(chainIn.env.responses[k].items) :
            chainIn.env.responses[k].items[i].VARNAME # "malformed"

\* what C21 says, for the windows in which no item makes the loop raise
C21_BoundedLookbackOfSoundItems ==
    NoItemRaises => C21_BoundedLookback

RECURSIVE CountAfter(_)
\* the counter after the first n requests of the window, as C22 describes it:
\* a 404 adds one, any other response resets it, a raising request keeps it
CountAfter(n) ==
    IF n = 0 THEN 0
    ELSE LET r == chainIn.env.responses[n]
         IN  IF r.kind = "raises" THEN CountAfter(n - 1)
             ELSE IF r.status = 404 THEN CountAfter(n - 1) + 1
             ELSE 0

\* the last request of the call that was answered, 0 if none was
LastAnswered ==
    LET answered == {k \in 1..Len(Requested) : chainIn.env.responses[k].kind = "response"}
    IN  IF answered = {} THEN 0 ELSE CHOOSE k \in answered : \A j \in answered : j <= k

\* C22: the counter of a call follows the responses (404: plus one, other
\* response: 0, raising request: unchanged); the alert is sent only when the
\* call returns no record and the counter is at least 3, hence never when the
\* last response was not a 404
C22_FailureCounter ==
    LookbackDone =>
        /\ chainOut.continuous_404_count = CountAfter(Len(Requested))
        /\ chainOut.alert =>
              /\ chainOut.records = <<>>
              /\ chainOut.continuous_404_count >= ALERT_THRESHOLD
              /\ LastAnswered # 0
              /\ chainIn.env.responses[LastAnswered].status = 404

\* what C22 says, for the windows in which no item makes the loop raise; there
\* the alert is sent exactly when the window is used up with the counter at 3
\* or more
C22_FailureCounterOfSoundItems ==
    (LookbackDone /\ NoItemRaises) =>
        /\ C22_FailureCounter
        /\ chainOut.alert <=>
              (chainOut.exhausted /\ chainOut.continuous_404_count >= ALERT_THRESHOLD)

(***************************************************************************)
(* Separator and summary rows of the CME sheet: claims.                    *)
(***************************************************************************)
\* the records of the sheet without its separator row
WithoutSeparator ==
    fetch_comex([chainIn.env EXCEPT !.sheet = chainIn.env.plain]).records

\* C23: a row whose first cell is a run of '-' or of '=' leaves the warehouse
\* cursor and the collected values as they are and opens no group: the sheet
\* yields the records it yields without the row
C23_SeparatorSkipped ==
    (chainIn.fn = "fetch_comex" /\ chainOut.done) => chainOut.records = WithoutSeparator

\* what C23 says, for a run of at least three '-' and for a run of '=' on a
\* row with more than two cells that are not empty
C23_DashesSkipped ==
    (/\ chainIn.fn = "fetch_comex" /\ chainOut.done
     /\ \/ chainIn.env.separator.c0 = <<"---">>
        \/ non_null_count(chainIn.env.separator) > 2)
    => chainOut.records = WithoutSeparator

\* the sheet ends with a report-level summary row after its last block
SummaryTrailer ==
    /\ chainIn.fn = "fetch_comex" /\ chainOut.done
    /\ chainIn.env.kind = "sheet" /\ chainIn.env.blocks # <<>>
    /\ chainIn.env.trailer = <<CatRow(<<"TOTAL", "REGISTERED">>, 120000, FALSE)>>

\* the records of the sheet without what follows its last block
WithoutTrailer ==
    fetch_comex(ComexSheet(chainIn.env.preamble, chainIn.env.header,
                           chainIn.env.blocks, <<>>)).records

\* C27: a summary row TOTAL REGISTERED after the last warehouse block changes
\* no value of that warehouse: the sheet yields the records, per warehouse
\* and aggregate, that it yields without the row
C27_OwnBlockValues ==
    SummaryTrailer => chainOut.records = WithoutTrailer

(***************************************************************************)
(* The ETF window: claims.                                                 *)
(***************************************************************************)
\* the frames of records that the last ETF run got from fetch_etf
EtfFrames ==
    IF lastRun.fetcher = "etf"
    THEN {lastRun.calls[i].returned : i \in 1..Len(lastRun.calls)} \ {<<>>}
    ELSE {}

\* every row after the first has change = shares - shares of the row before
LaterChanges(frame) ==
    \A i \in 2..Len(frame) :
        frame[i]["change"] = Some(frame[i]["shares"][1] - frame[i - 1]["shares"][1])

\* C24: the earliest row of a fetched window has no change (null), and the
\* change of every later row is its shares minus the shares of the row before
C24_FirstChangeAbsent ==
    \A frame \in EtfFrames : frame[1]["change"] = NULL /\ LaterChanges(frame)

\* the part of C24 that holds: the changes of the rows after the first
C24_LaterChanges ==
    \A frame \in EtfFrames : LaterChanges(frame)

(***************************************************************************)
(* The SGE spot price: claims.                                             *)
(***************************************************************************)
SpotDone == chainIn.fn = "fetch_sge_spot" /\ chainOut.done

\* the primary provider gave no records
AkshareGaveNothing == SpotDone /\ chainOut.calls[1].returned = <<>>

\* the fallback was called and its records, with its source id, are the result
FallbackIsResult ==
    /\ Len(chainOut.calls) = 2
    /\ chainOut.calls[2].provider = "scrapling_sge_ui"
    /\ chainOut.records = chainOut.calls[2].returned
    /\ \A k \in 1..Len(chainOut.records) :
          chainOut.records[k]["source"] = Some("scrapling_sge_ui")

\* C25: whenever akshare yields no records (it raises, a column is missing,
\* or the frame is None or empty) the Scrapling fallback is called and its
\* records are the result
C25_FallbackWheneverEmpty == AkshareGaveNothing => FallbackIsResult

\* the part of C25 that holds: the fallback after an exception of the primary
C25_FallbackAfterException ==
    (SpotDone /\ chainOut.calls[1].raised) => FallbackIsResult

(***************************************************************************)
(* The inventory batch and the store: claims.                              *)
(***************************************************************************)
\* the records update_daily gathered from its four sources in the run
InventoryBatch == inventory_update_daily(<<>>, pipeIn.inventory).records

\* the stored row of a record of the batch
Stored(rec) ==
    \E i \in 1..Len(tables["inventory_daily"]) :
        \A c \in UNIQUE("inventory_daily") \ {"warehouse"} :
            tables["inventory_daily"][i][c] = rec[c]

\* C26: every record of the inventory batch has a category that the CHECK of
\* inventory_daily admits, the batch is not rejected, and every record of
\* every source is stored
C26_InventoryFitsStore ==
    (pipeOut.called /\ pipeIn.store = "ok") =>
        \A k \in 1..Len(InventoryBatch) :
            /\ InventoryBatch[k]["category"][1] \in CategoryCheck
            /\ "inventory" \in pipeOut.persisted
            /\ Stored(InventoryBatch[k])

\* what holds instead: the batch is stored whole when the SGE report gave no
\* record
C26_WithoutSgeRecords ==
    (pipeOut.called /\ pipeIn.store = "ok"
        /\ fetch_sge_pdf(pipeIn.inventory.sge).records = <<>>) =>
        \A k \in 1..Len(InventoryBatch) :
            /\ InventoryBatch[k]["category"][1] \in CategoryCheck
            /\ "inventory" \in pipeOut.persisted
            /\ Stored(InventoryBatch[k])

(***************************************************************************)
(* The stored ETF change over the runs of successive days: claims.         *)
(***************************************************************************)
\* the stored GLD rows of day d, in a value of the table
GldRows(rows, d) ==
    {i \in 1..Len(rows) : rows[i]["symbol"] = Some("GLD") /\ rows[i]["date"] = Some(d)}

\* shares(d) - shares(previous trading day) in the upstream's series
DayChange(d) == chainIn.env.series[d].Volume - chainIn.env.series[d - 1].Volume

\* the step is the run of a new day: the first run since the day began
RunOfNewDay == lastRun.fetcher = "none" /\ lastRun'.fetcher = "etf"

\* C28: once the row of day D is stored with change = shares(D) - shares(the
\* trading day before), the run of a later day stores no other change for D
C28_StoredChangeStable ==
    [][\A d \in 2..MaxDays :
          \A i \in GldRows(tables["etf_holdings_daily"], d) :
              (RunOfNewDay /\ tables["etf_holdings_daily"][i]["change"] = Some(DayChange(d))) =>
                  \A j \in GldRows(tables'["etf_holdings_daily"], d) :
                      tables'["etf_holdings_daily"][j]["change"] = Some(DayChange(d))]_vars

\* what holds instead: the stored shares of a day never change
C28_StoredSharesStable ==
    [][\A d \in 1..MaxDays :
          \A i \in GldRows(tables["etf_holdings_daily"], d) :
              \A j \in GldRows(tables'["etf_holdings_daily"], d) :
                  tables'["etf_holdings_daily"][j]["shares"]
                      = tables["etf_holdings_daily"][i]["shares"]]_vars

(***************************************************************************)
(* The backfill: claims.                                                   *)
(***************************************************************************)
BackfillDone == chainIn.fn = "run_backfill" /\ chainOut.done

\* the source ids of the SGE spot providers
SpotSources == {"akshare_sge", "scrapling_sge_ui"}

\* the spot records among the prices main gathered, of the given sources
SpotPrices(sources) ==
    {chainOut.records[k] :
        k \in {j \in 1..Len(chainOut.records) :
                  chainOut.records[j]["source"][1] \in sources}}

\* the records of the given sources go to spot_prices_daily and none of them
\* to future_prices_daily
Routed(sources) ==
    /\ \A rec \in SpotPrices(sources) :
          \E b \in 1..Len(chainOut.batches) :
              /\ chainOut.batches[b].table = "spot_prices_daily"
              /\ \E k \in 1..Len(chainOut.batches[b].records) :
                    chainOut.batches[b].records[k] = rec
    /\ \A b \in 1..Len(chainOut.batches) :
          chainOut.batches[b].table = "future_prices_daily" =>
              \A k \in 1..Len(chainOut.batches[b].records) :
                  chainOut.batches[b].records[k]["source"][1] \notin sources

\* C29: every spot record of fetch_sge_spot, from akshare or from the
\* Scrapling fallback, is in the batch written to spot_prices_daily, and the
\* batch written to future_prices_daily holds futures records only
C29_BackfillRouting == BackfillDone => Routed(SpotSources)

\* the part of C29 that holds: the routing of the akshare records
C29_AkshareRouting == BackfillDone => Routed({"akshare_sge"})

\* C30: every history request of the backfill's ETF step asks the upstream for
\* a window of at least the days main asked for (3650), whatever the store
\* holds
C30_WindowAtLeastDays ==
    BackfillDone =>
        \A k \in 1..Len(chainOut.requests) :
            chainOut.requests[k].period >= chainOut.requests[k].days

\* what holds instead: the window is the one asked for when the store held 2
\* rows or more of the symbol before the call
C30_WindowOfWarmStore ==
    [][\A k \in 1..Len(chainOut'.requests) :
          etf_count(tables["etf_holdings_daily"], chainOut'.requests[k].symbol) >= 2 =>
              chainOut'.requests[k].period = chainOut'.requests[k].days]_vars

=============================================================================
